---- MODULE Spec2Model ----
(***************************************************************************)
(* Model of the MCT parser (ganansuan647/mct_parser): the block splitter   *)
(* and dispatcher of MCTParser (src/parser.py), the index-expression       *)
(* decoder MCTParser._parse_index_list and the BSTEMPER decoder            *)
(* LoadParser.parse_bstemper (src/parsers/load_parsers.py).                *)
(*                                                                         *)
(* Text is modelled at character level: a Python str is a sequence of      *)
(* one-character strings, so that strip/find/split/startswith/int() are    *)
(* computed the way the code computes them.                                *)
(***************************************************************************)
EXTENDS Integers, Sequences, FiniteSets, TLC

(***************************************************************************)
(* Python str primitives                                                   *)
(***************************************************************************)

\* characters str.strip() / str.split() treat as whitespace (the part of
\* Python's whitespace class that occurs in the modelled inputs)
WS == {" ", "\t"}

DigitChars == {"0", "1", "2", "3", "4", "5", "6", "7", "8", "9"}

DigitVal(c) ==
    CASE c = "0" -> 0 [] c = "1" -> 1 [] c = "2" -> 2 [] c = "3" -> 3
      [] c = "4" -> 4 [] c = "5" -> 5 [] c = "6" -> 6 [] c = "7" -> 7
      [] c = "8" -> 8 [] c = "9" -> 9

RECURSIVE LStrip(_)
LStrip(s) == IF s # <<>> /\ Head(s) \in WS THEN LStrip(Tail(s)) ELSE s

RECURSIVE RStrip(_)
RStrip(s) ==
    IF s # <<>> /\ s[Len(s)] \in WS THEN RStrip(SubSeq(s, 1, Len(s) - 1)) ELSE s

\* str.strip()
Strip(s) == RStrip(LStrip(s))

\* str.startswith(p)
StartsWith(s, p) == Len(s) >= Len(p) /\ SubSeq(s, 1, Len(p)) = p

\* str.find(sub): 0-based index of the first occurrence, -1 when absent
Find(s, sub) ==
    LET First(hits) ==
            IF hits = {} THEN -1
            ELSE (CHOOSE k \in hits : \A m \in hits : k <= m) - 1
    IN  First({k \in 1..(Len(s) - Len(sub) + 1) : SubSeq(s, k, k + Len(sub) - 1) = sub})

\* `sub in s`
Contains(s, sub) == Find(s, sub) # -1

\* str.split(sep) for a non-empty separator: every occurrence splits, empty
\* pieces are kept
RECURSIVE SplitOn(_, _)
SplitOn(s, sep) ==
    LET At(k) ==
            IF k = -1 THEN <<s>>
            ELSE <<SubSeq(s, 1, k)>> \o SplitOn(SubSeq(s, k + Len(sep) + 1, Len(s)), sep)
    IN  At(Find(s, sep))

\* str.split() without argument: runs of whitespace separate, no empty pieces
RECURSIVE SplitWS(_)
SplitWS(s) ==
    LET Cut(t, e) == <<SubSeq(t, 1, e - 1)>> \o SplitWS(SubSeq(t, e, Len(t)))
        First(t, ends) ==
            Cut(t, IF ends = {} THEN Len(t) + 1
                   ELSE CHOOSE k \in ends : \A m \in ends : k <= m)
        Words(t) ==
            IF t = <<>> THEN <<>> ELSE First(t, {k \in 1..Len(t) : t[k] \in WS})
    IN  Words(LStrip(s))

RECURSIVE DigitsVal(_)
DigitsVal(s) ==
    IF s = <<>> THEN 0 ELSE 10 * DigitsVal(SubSeq(s, 1, Len(s) - 1)) + DigitVal(s[Len(s)])

IsDigits(s) == s # <<>> /\ \A k \in 1..Len(s) : s[k] \in DigitChars

\* int(s) succeeds: optional surrounding whitespace, optional sign, digits
IntOk(s) ==
    LET Ok(t) == IF t # <<>> /\ Head(t) \in {"-", "+"} THEN IsDigits(Tail(t)) ELSE IsDigits(t)
    IN  Ok(Strip(s))

\* int(s) where it succeeds
IntVal(s) ==
    LET Val(t) ==
            IF Head(t) = "-" THEN 0 - DigitsVal(Tail(t))
            ELSE IF Head(t) = "+" THEN DigitsVal(Tail(t))
            ELSE DigitsVal(t)
    IN  Val(Strip(s))

\* list(range(start, stop, step)) for step # 0
RECURSIVE PyRange(_, _, _)
PyRange(start, stop, step) ==
    IF (step > 0 /\ start >= stop) \/ (step < 0 /\ start <= stop) THEN <<>>
    ELSE <<start>> \o PyRange(start + step, stop, step)

(***************************************************************************)
(* MCTParser._parse_index_list                                             *)
(***************************************************************************)

\* outcome of a call: raised = TRUE when an exception leaves the function
Returned(v) == [raised |-> FALSE, value |-> v]
Raised(m)   == [raised |-> TRUE, value |-> m]

\* mutant: the end of the range is exclusive
RangeStop_Exclusive(end) == end

\* stop of the range: `end + 1` makes the end inclusive (parser.py 351)
RangeStop(end) == end + 1

\* one token containing 'to' (parser.py 340-351); the int() calls and
\* range() are outside any try block
ParseRangeToken(part) ==
    LET Ranged(first, endStr, stepStr, hasBy) ==
            IF ~IntOk(first) THEN Raised("ValueError")
            ELSE IF ~IntOk(endStr) THEN Raised("ValueError")
            ELSE IF hasBy /\ ~IntOk(stepStr) THEN Raised("ValueError")
            ELSE IF hasBy /\ IntVal(stepStr) = 0 THEN Raised("ValueError")
            ELSE Returned(PyRange(IntVal(first), RangeStop(IntVal(endStr)),
                                  IF hasBy THEN IntVal(stepStr) ELSE 1))
        Ended(first, rest, end_step, hasBy) ==
            Ranged(first,
                   IF hasBy THEN end_step[1] ELSE rest,
                   IF hasBy THEN end_step[2] ELSE <<>>,
                   hasBy)
        Split(range_parts) ==
            Ended(range_parts[1], range_parts[2],
                  SplitOn(range_parts[2], <<"b", "y">>),
                  Contains(range_parts[2], <<"b", "y">>))
    IN  Split(SplitOn(part, <<"t", "o">>))

\* one token of the loop body (parser.py 339-356)
ParseIndexToken(part) ==
    IF Contains(part, <<"t", "o">>) THEN ParseRangeToken(part)
    ELSE IF IntOk(part) THEN Returned(<<IntVal(part)>>)
    ELSE Returned(<<>>)

RECURSIVE ParseIndexParts(_, _)
ParseIndexParts(parts, result) ==
    IF parts = <<>> THEN Returned(result)
    ELSE LET r == ParseIndexToken(Head(parts))
         IN  IF r.raised THEN r
             ELSE ParseIndexParts(Tail(parts), result \o r.value)

\* _parse_index_list(text) (parser.py 318-358)
ParseIndexList(text) ==
    IF text = <<>> \/ Strip(text) = <<>> THEN Returned(<<>>)
    ELSE ParseIndexParts(SplitWS(text), <<>>)


(***************************************************************************)
(* Result Model (src/models/base.py) and records (src/models/commands.py)  *)
(***************************************************************************)

\* MCTModel.__init__
NewMCTModel == [commands |-> <<>>, errors |-> <<>>, warnings |-> <<>>]

\* mutant: an existing key keeps its first value (setdefault)
DictSet_KeepFirst(d, k, v) ==
    IF \E n \in 1..Len(d) : d[n].key = k THEN d
    ELSE Append(d, [key |-> k, value |-> v])

\* mutant: an existing key is deleted and inserted again at the end
DictSet_MoveToEnd(d, k, v) ==
    Append(SelectSeq(d, LAMBDA e : e.key # k), [key |-> k, value |-> v])

\* self.commands[command_name] = command_data on a dict kept as an ordered
\* sequence of (key, value) pairs: an existing key keeps its position
DictSet(d, k, v) ==
    IF \E n \in 1..Len(d) : d[n].key = k
    THEN [n \in 1..Len(d) |-> IF d[n].key = k THEN [key |-> k, value |-> v] ELSE d[n]]
    ELSE Append(d, [key |-> k, value |-> v])

DictKeys(d) == {d[n].key : n \in 1..Len(d)}

\* mutant: every call adds a new entry, an earlier one for the key stays
add_command_Append(m, command_name, command_data) ==
    [m EXCEPT !.commands = Append(@, [key |-> command_name, value |-> command_data])]

\* MCTModel.add_command
add_command(m, command_name, command_data) ==
    [m EXCEPT !.commands = DictSet(@, command_name, command_data)]

\* one entry of model.errors / model.warnings: who logged it, the command
\* keyword or row text it names, the line number it carries (0: none), and
\* the message
LogEntry(src, cmd, line, msg) == [src |-> src, cmd |-> cmd, line |-> line, msg |-> msg]

AddError(m, e) == [m EXCEPT !.errors = Append(@, e)]

\* fields a StructType record requires (commands.py 35-44)
StructTypeRequired ==
    {"istruct_type", "imass", "ismas", "mass_offset", "self_weight", "gravity",
     "temperature", "align_beam", "align_slab", "rot_rigid"}

\* pydantic construction: a missing required field raises ValidationError
Construct(required, rec) ==
    IF required \subseteq DOMAIN rec THEN Returned(rec) ELSE Raised("ValidationError")

(***************************************************************************)
(* MCTCommand (src/models/base.py 12-98) and the registry                  *)
(* MCTParser._init_command_parsers (src/parser.py 77-160)                  *)
(***************************************************************************)

MCTCommand ==
    [ VERSION |-> <<"V","E","R","S","I","O","N">>,
      UNIT |-> <<"U","N","I","T">>,
      PROJINFO |-> <<"P","R","O","J","I","N","F","O">>,
      STRUCTYPE |-> <<"S","T","R","U","C","T","Y","P","E">>,
      ENDDATA |-> <<"E","N","D","D","A","T","A">>,
      NODE |-> <<"N","O","D","E">>,
      GRIDLINE |-> <<"G","R","I","D","L","I","N","E">>,
      ELEMENT |-> <<"E","L","E","M","E","N","T">>,
      GROUP |-> <<"G","R","O","U","P">>,
      BNDR_GROUP |-> <<"B","N","D","R","-","G","R","O","U","P">>,
      LOAD_GROUP |-> <<"L","O","A","D","-","G","R","O","U","P">>,
      MATERIAL |-> <<"M","A","T","E","R","I","A","L">>,
      MATL_COLOR |-> <<"M","A","T","L","-","C","O","L","O","R">>,
      REBAR_MATL_CODE |-> <<"R","E","B","A","R","-","M","A","T","L","-","C","O","D","E">>,
      TDM_FUNC |-> <<"T","D","M","-","F","U","N","C">>,
      TDM_TYPE |-> <<"T","D","M","-","T","Y","P","E">>,
      TDM_ELAST |-> <<"T","D","M","-","E","L","A","S","T">>,
      TDM_LINK |-> <<"T","D","M","-","L","I","N","K">>,
      ELEM_DEPMATL |-> <<"E","L","E","M","-","D","E","P","M","A","T","L">>,
      SECTION |-> <<"S","E","C","T","I","O","N">>,
      SECT_COLOR |-> <<"S","E","C","T","-","C","O","L","O","R">>,
      SECT_PSCVALUE |-> <<"S","E","C","T","-","P","S","C","V","A","L","U","E">>,
      DGN_SECT |-> <<"D","G","N","-","S","E","C","T">>,
      DGN_SECT_PSCVALUE |-> <<"D","G","N","-","S","E","C","T","-","P","S","C","V","A","L","U","E">>,
      COMP_GEN_SECT_PSC_DESIGN |-> <<"C","O","M","P","-","G","E","N","-","S","E","C","T","-","P","S","C","-","D","E","S","I","G","N">>,
      TS_GROUP |-> <<"T","S","-","G","R","O","U","P">>,
      ELASTICLINK |-> <<"E","L","A","S","T","I","C","L","I","N","K">>,
      RIGIDLINK |-> <<"R","I","G","I","D","L","I","N","K">>,
      VLINK |-> <<"V","L","I","N","K">>,
      FRICTION |-> <<"F","R","I","C","T","I","O","N">>,
      CONSTRAINT |-> <<"C","O","N","S","T","R","A","I","N","T">>,
      SPRING |-> <<"S","P","R","I","N","G">>,
      STLDCASE |-> <<"S","T","L","D","C","A","S","E">>,
      USE_STLD |-> <<"U","S","E","-","S","T","L","D">>,
      SELFWEIGHT |-> <<"S","E","L","F","W","E","I","G","H","T">>,
      SYSTEMPER |-> <<"S","Y","S","T","E","M","P","E","R">>,
      BSTEMPER |-> <<"B","S","T","E","M","P","E","R">>,
      BEAMLOAD |-> <<"B","E","A","M","L","O","A","D">>,
      CONLOAD |-> <<"C","O","N","L","O","A","D">>,
      PRESSURE |-> <<"P","R","E","S","S","U","R","E">>,
      PRESTRESS |-> <<"P","R","E","S","T","R","E","S","S">>,
      EFF_WIDTH |-> <<"E","F","F","-","W","I","D","T","H">>,
      LOADTOMASS |-> <<"L","O","A","D","T","O","M","A","S","S">>,
      LOADCOMB |-> <<"L","O","A","D","C","O","M","B">>,
      LOAD_SEQ |-> <<"L","O","A","D","-","S","E","Q">>,
      STAGE_CTRL |-> <<"S","T","A","G","E","-","C","T","R","L">>,
      EIGEN_CTRL |-> <<"E","I","G","E","N","-","C","T","R","L">>,
      SPEC_CTRL |-> <<"S","P","E","C","-","C","T","R","L">>,
      MOVE_CTRL |-> <<"M","O","V","E","-","C","T","R","L">>,
      NONL_CTRL |-> <<"N","O","N","L","-","C","T","R","L">>,
      HYD_STAGE |-> <<"H","Y","D","-","S","T","A","G","E">>,
      HYD_CTRL |-> <<"H","Y","D","-","C","T","R","L">>,
      HYD_HEATSRC |-> <<"H","Y","D","-","H","E","A","T","S","R","C">>,
      CUTLINE |-> <<"C","U","T","L","I","N","E">> ]

command_parsers ==
    (MCTCommand.VERSION :> "parse_version") @@
    (MCTCommand.UNIT :> "parse_unit") @@
    (MCTCommand.PROJINFO :> "parse_projinfo") @@
    (MCTCommand.STRUCTYPE :> "parse_structype") @@
    (MCTCommand.ENDDATA :> "parse_enddata") @@
    (MCTCommand.NODE :> "parse_node") @@
    (MCTCommand.GRIDLINE :> "parse_gridline") @@
    (MCTCommand.ELEMENT :> "parse_element") @@
    (MCTCommand.GROUP :> "parse_group") @@
    (MCTCommand.BNDR_GROUP :> "parse_bndr_group") @@
    (MCTCommand.LOAD_GROUP :> "parse_load_group") @@
    (MCTCommand.MATERIAL :> "parse_material") @@
    (MCTCommand.MATL_COLOR :> "parse_matl_color") @@
    (MCTCommand.REBAR_MATL_CODE :> "parse_rebar_matl_code") @@
    (MCTCommand.TDM_FUNC :> "parse_tdm_func") @@
    (MCTCommand.TDM_TYPE :> "parse_tdm_type") @@
    (MCTCommand.TDM_ELAST :> "parse_tdm_elast") @@
    (MCTCommand.TDM_LINK :> "parse_tdm_link") @@
    (MCTCommand.ELEM_DEPMATL :> "parse_elem_depmatl") @@
    (MCTCommand.SECTION :> "parse_section") @@
    (MCTCommand.SECT_COLOR :> "parse_sect_color") @@
    (MCTCommand.SECT_PSCVALUE :> "parse_sect_pscvalue") @@
    (MCTCommand.DGN_SECT :> "parse_dgn_sect") @@
    (MCTCommand.DGN_SECT_PSCVALUE :> "parse_dgn_sect_pscvalue") @@
    (MCTCommand.COMP_GEN_SECT_PSC_DESIGN :> "parse_comp_gen_sect_psc_design") @@
    (MCTCommand.TS_GROUP :> "parse_ts_group") @@
    (MCTCommand.ELASTICLINK :> "parse_elasticlink") @@
    (MCTCommand.RIGIDLINK :> "parse_rigidlink") @@
    (MCTCommand.VLINK :> "parse_vlink") @@
    (MCTCommand.FRICTION :> "parse_friction") @@
    (MCTCommand.CONSTRAINT :> "parse_constraint") @@
    (MCTCommand.SPRING :> "parse_spring") @@
    (MCTCommand.STLDCASE :> "parse_stldcase") @@
    (MCTCommand.USE_STLD :> "parse_use_stld") @@
    (MCTCommand.SELFWEIGHT :> "parse_selfweight") @@
    (MCTCommand.SYSTEMPER :> "parse_systemper") @@
    (MCTCommand.BSTEMPER :> "parse_bstemper") @@
    (MCTCommand.BEAMLOAD :> "parse_beamload") @@
    (MCTCommand.CONLOAD :> "parse_conload") @@
    (MCTCommand.PRESSURE :> "parse_pressure") @@
    (MCTCommand.PRESTRESS :> "parse_prestress") @@
    (MCTCommand.EFF_WIDTH :> "parse_eff_width") @@
    (MCTCommand.LOADTOMASS :> "parse_loadtomass") @@
    (MCTCommand.LOADCOMB :> "parse_loadcomb") @@
    (MCTCommand.LOAD_SEQ :> "parse_load_seq") @@
    (MCTCommand.STAGE_CTRL :> "parse_stage_ctrl") @@
    (MCTCommand.EIGEN_CTRL :> "parse_eigen_ctrl") @@
    (MCTCommand.SPEC_CTRL :> "parse_spec_ctrl") @@
    (MCTCommand.MOVE_CTRL :> "parse_move_ctrl") @@
    (MCTCommand.NONL_CTRL :> "parse_nonl_ctrl") @@
    (MCTCommand.HYD_STAGE :> "parse_hyd_stage") @@
    (MCTCommand.HYD_CTRL :> "parse_hyd_ctrl") @@
    (MCTCommand.HYD_HEATSRC :> "parse_hyd_heatsrc") @@
    (MCTCommand.CUTLINE :> "parse_cutline")

MCTCommandValues == {MCTCommand[f] : f \in DOMAIN MCTCommand}

(***************************************************************************)
(* MCTParser._preprocess_line (src/parser.py 258-274)                      *)
(***************************************************************************)

\* mutant: the text before the comment marker is returned as it stands
PreprocessLine_Untrimmed(line) ==
    LET comment_index == Find(line, <<";">>)
    IN  IF comment_index # -1 THEN SubSeq(line, 1, comment_index)
        ELSE Strip(line)

PreprocessLine(line) ==
    LET comment_index == Find(line, <<";">>)
    IN  IF comment_index # -1 THEN Strip(SubSeq(line, 1, comment_index))
        ELSE Strip(line)

\* re.split(r'\s*,\s*', line): split at commas, the whitespace around each
\* comma belongs to the separator
SplitComma(line) ==
    LET Trimmed(raw) ==
            [k \in 1..Len(raw) |->
                IF Len(raw) = 1 THEN raw[k]
                ELSE IF k = 1 THEN RStrip(raw[k])
                ELSE IF k = Len(raw) THEN LStrip(raw[k])
                ELSE Strip(raw[k])]
    IN  Trimmed(SplitOn(line, <<",">>))

(***************************************************************************)
(* Decoders.  A decoder takes the block's lines, its line numbers and the  *)
(* Result Model and gives the outcome: the model after the call and        *)
(* whether an exception left the decoder.                                  *)
(***************************************************************************)

DecReturn(m) == [raised |-> FALSE, msg |-> "", model |-> m]
DecRaise(m, msg) == [raised |-> TRUE, msg |-> msg, model |-> m]

\* BasicCommandParser.parse_version (basic_parsers.py 28-42)
parse_version(blines, line_nums, m) ==
    IF Len(blines) < 2
    THEN DecReturn(AddError(m, LogEntry("parse_version", MCTCommand.VERSION, 0, "missing version")))
    ELSE DecReturn(add_command(m, "VERSION",
            [version |-> Strip(blines[2]), raw_lines |-> blines, line_nums |-> line_nums]))

\* str.isdigit() guarded int(): int(p) if present and all digits, else 0
DigitOrZero(parts, k) ==
    IF Len(parts) >= k /\ IsDigits(Strip(parts[k])) THEN IntVal(parts[k]) ELSE 0

\* BasicCommandParser.parse_structype (basic_parsers.py 90-169): rows are
\* handled from index k on
RECURSIVE StructypeRows(_, _, _, _)
StructypeRows(blines, line_nums, k, m) ==
    IF k > Len(blines) THEN DecReturn(m)
    ELSE LET line == PreprocessLine(blines[k])
         IN  IF line = <<>> \/ StartsWith(line, <<";">>) \/ StartsWith(line, <<"*">>)
             THEN StructypeRows(blines, line_nums, k + 1, m)
             ELSE LET parts == SplitComma(line)
                      struct_data == Construct(StructTypeRequired,
                          [istruct_type |-> DigitOrZero(parts, 1),
                           imass |-> DigitOrZero(parts, 2),
                           igeomnl |-> DigitOrZero(parts, 3),
                           igeom |-> DigitOrZero(parts, 4),
                           ianaly |-> DigitOrZero(parts, 5),
                           imatrl |-> DigitOrZero(parts, 6),
                           isoil |-> DigitOrZero(parts, 7),
                           idimen |-> DigitOrZero(parts, 8),
                           raw_lines |-> blines,
                           line_nums |-> line_nums])
                  IN  IF struct_data.raised THEN DecRaise(m, struct_data.value)
                      ELSE StructypeRows(blines, line_nums, k + 1,
                               add_command(m, "STRUCTYPE", struct_data.value))

parse_structype(blines, line_nums, m) == StructypeRows(blines, line_nums, 1, m)

(***************************************************************************)
(* float() and str.upper()                                                 *)
(***************************************************************************)

LowerLetters == <<"a","b","c","d","e","f","g","h","i","j","k","l","m",
                  "n","o","p","q","r","s","t","u","v","w","x","y","z">>
UpperLetters == <<"A","B","C","D","E","F","G","H","I","J","K","L","M",
                  "N","O","P","Q","R","S","T","U","V","W","X","Y","Z">>

UpperChar(c) ==
    IF \E k \in 1..26 : LowerLetters[k] = c
    THEN UpperLetters[CHOOSE k \in 1..26 : LowerLetters[k] = c]
    ELSE c

\* str.upper()
Upper(s) == [k \in 1..Len(s) |-> UpperChar(s[k])]

Unsigned(t) == IF t # <<>> /\ Head(t) \in {"-", "+"} THEN Tail(t) ELSE t

\* position (1-based) of the exponent marker of a float literal, 0 if none
ExpPos(t) ==
    LET First(hits) == IF hits = {} THEN 0 ELSE CHOOSE k \in hits : \A m \in hits : k <= m
    IN  First({k \in 1..Len(t) : t[k] \in {"e", "E"}})

MantissaOf(t) ==
    LET Before(p) == IF p = 0 THEN t ELSE SubSeq(t, 1, p - 1)
    IN  Before(ExpPos(t))

ExponentOf(t) ==
    LET After(p) == IF p = 0 THEN <<"0">> ELSE SubSeq(t, p + 1, Len(t))
    IN  After(ExpPos(t))

\* decimal mantissa: digits with at most one '.', at least one digit
MantissaOk(mt) ==
    LET dots == {k \in 1..Len(mt) : mt[k] = "."}
    IN  /\ Cardinality(dots) <= 1
        /\ \A k \in 1..Len(mt) : mt[k] \in DigitChars \cup {"."}
        /\ \E k \in 1..Len(mt) : mt[k] \in DigitChars

\* float(s) succeeds (decimal literals with optional sign, fraction and
\* exponent; inf/nan spellings do not occur in the modelled inputs)
FloatOk(s) ==
    LET Ok(t) ==
            /\ MantissaOk(MantissaOf(t))
            /\ IsDigits(Unsigned(ExponentOf(t)))
    IN  Ok(Unsigned(Strip(s)))

RECURSIVE NormDec(_, _)
NormDec(m, e) ==
    IF m = 0 THEN [m |-> 0, e |-> 0]
    ELSE IF m % 10 = 0 THEN NormDec(m \div 10, e + 1)
    ELSE [m |-> m, e |-> e]

\* float(s) where it succeeds, as the decimal number m * 10^e (m not a
\* multiple of 10, or m = e = 0)
FloatVal(s) ==
    LET Scaled(neg, mag, ex) == NormDec(IF neg THEN 0 - mag ELSE mag, ex)
        Joined(neg, intPart, fracPart, ex) ==
            Scaled(neg, DigitsVal(intPart \o fracPart), ex - Len(fracPart))
        Dotted(neg, mt, dot, ex) ==
            Joined(neg, SubSeq(mt, 1, dot - 1), SubSeq(mt, dot + 1, Len(mt)), ex)
        Mantissa(neg, mt, ex) ==
            Dotted(neg, mt,
                   IF \E k \in 1..Len(mt) : mt[k] = "."
                   THEN CHOOSE k \in 1..Len(mt) : mt[k] = "." ELSE Len(mt) + 1,
                   ex)
        Signed(neg, t) == Mantissa(neg, MantissaOf(t), IntVal(ExponentOf(t)))
        Stripped(st) == Signed(Head(st) = "-", Unsigned(st))
    IN  Stripped(Strip(s))

(***************************************************************************)
(* LoadParser.parse_bstemper (src/parsers/load_parsers.py 165-294)         *)
(***************************************************************************)

\* current_element_data = None
NoElement ==
    [set |-> FALSE, hdr_line |-> 0, elem_id |-> 0, direction |-> <<>>,
     ref_point |-> <<>>, num_sections |-> 0, group |-> <<>>, is_psc |-> FALSE, sections |-> <<>>]

INPUT == <<"I", "N", "P", "U", "T">>

\* locals of parse_bstemper at the `while` test: row index i (0-based, as
\* in the code), current_element_data, temperatures, and the Result Model
BstStart(m) == [i |-> 1, cur |-> NoElement, temperatures |-> <<>>, model |-> m]

BstErr(st, kind, line, num) ==
    [st EXCEPT !.model = AddError(@, LogEntry("parse_bstemper", line, num, kind)),
               !.i = @ + 1]

\* the shortfall entry (load_parsers.py 289): names the element id, the
\* expected and the actual number of sections
ShortfallEntry(cur) ==
    [src |-> "parse_bstemper", cmd |-> <<>>, line |-> 0, msg |-> "shortfall",
     elem_id |-> cur.elem_id, expected |-> cur.num_sections,
     actual |-> Len(cur.sections)]

\* element-header row (load_parsers.py 192-232); hdr_line is a ghost field:
\* the line number of the header row the element data came from
BstHeaderRow(st, line, num) ==
    LET raw == SplitOn(line, <<",">>)
        parts == [k \in 1..Len(raw) |-> Strip(raw[k])]
    IN  IF Len(parts) < 5 THEN BstErr(st, "header: at least 5 fields", line, num)
        ELSE IF ~IntOk(parts[1]) \/ ~IntOk(parts[4])
        THEN BstErr(st, "ValueError", line, num)
        ELSE [st EXCEPT
                !.cur = [set |-> TRUE,
                         hdr_line |-> num,
                         elem_id |-> IntVal(parts[1]),
                         direction |-> parts[2],
                         ref_point |-> parts[3],
                         num_sections |-> IntVal(parts[4]),
                         group |-> IF Len(parts) > 4 /\ Strip(parts[5]) # <<>>
                                   THEN parts[5] ELSE <<>>,
                         is_psc |-> IF Len(parts) > 5 /\ Strip(parts[6]) # <<>>
                                    THEN Upper(Strip(parts[6])) = <<"Y", "E", "S">>
                                    ELSE FALSE,
                         sections |-> <<>>],
                !.i = @ + 1]

\* mutant: the completion test is off by one
BstComplete_OffByOne(cur) == Len(cur.sections) = cur.num_sections + 1

\* the record is complete: len(sections) == num_sections (load_parsers.py 277)
BstComplete(cur) == Len(cur.sections) = cur.num_sections

\* INPUT row (load_parsers.py 233-284); row_line is a ghost field: the line
\* number of the INPUT row the section came from
BstInputRow(st, line, num) ==
    LET parts == SplitWS(Strip(line))
        data_parts == Tail(parts)
    IN  IF ~st.cur.set THEN BstErr(st, "INPUT without element", line, num)
        ELSE IF Len(parts) < 8 THEN BstErr(st, "section: at least 7 fields", line, num)
        ELSE IF \E k \in 2..7 : ~FloatOk(data_parts[k])
        THEN BstErr(st, "ValueError", line, num)
        ELSE IF Len(data_parts) > 7 /\ ~FloatOk(data_parts[8])
        THEN BstErr(st, "ValueError", line, num)
        ELSE LET section_data ==
                     [row_line |-> num,
                      type |-> data_parts[1],
                      elasticity |-> FloatVal(data_parts[2]),
                      thermal |-> FloatVal(data_parts[3]),
                      width |-> FloatVal(data_parts[4]),
                      height1 |-> FloatVal(data_parts[5]),
                      temp1 |-> FloatVal(data_parts[6]),
                      height2 |-> FloatVal(data_parts[7]),
                      temp2 |-> IF Len(data_parts) > 7 THEN FloatVal(data_parts[8])
                                ELSE [m |-> 0, e |-> 0]]
                 cur2 == [st.cur EXCEPT !.sections = Append(@, section_data)]
             IN  IF BstComplete(cur2)
                 THEN [st EXCEPT !.temperatures = Append(@, cur2),
                                 !.cur = NoElement, !.i = @ + 1]
                 ELSE [st EXCEPT !.cur = cur2, !.i = @ + 1]

\* one iteration of `while i < len(lines)` (load_parsers.py 185-284)
BstStep(st, blines, line_nums) ==
    LET line == Strip(blines[st.i + 1])
        num == line_nums[st.i + 1]
    IN  IF line = <<>> THEN [st EXCEPT !.i = @ + 1]
        ELSE IF ~StartsWith(Strip(line), INPUT) THEN BstHeaderRow(st, line, num)
        ELSE BstInputRow(st, line, num)

\* an unfinished element is kept at the end of the block (load_parsers.py 287)
BstKeepsPartial(cur) == cur.set /\ cur.sections # <<>>

\* after the loop (load_parsers.py 286-294)
BstFinish(st, blines, line_nums) ==
    LET short == BstKeepsPartial(st.cur) /\ Len(st.cur.sections) < st.cur.num_sections
        m1 == IF short
              THEN AddError(st.model, ShortfallEntry(st.cur))
              ELSE st.model
        temps == IF BstKeepsPartial(st.cur) THEN Append(st.temperatures, st.cur)
                 ELSE st.temperatures
    IN  [st EXCEPT !.temperatures = temps,
                   !.model = add_command(m1, "BSTEMPER",
                        [temperatures |-> temps, raw_lines |-> blines,
                         line_nums |-> line_nums])]

RECURSIVE BstLoop(_, _, _)
BstLoop(st, blines, line_nums) ==
    IF st.i < Len(blines) THEN BstLoop(BstStep(st, blines, line_nums), blines, line_nums)
    ELSE st

parse_bstemper(blines, line_nums, m) ==
    DecReturn(BstFinish(BstLoop(BstStart(m), blines, line_nums), blines, line_nums).model)

(***************************************************************************)
(* MCTModel.get_command, has_command, get_commands_by_type                 *)
(* (src/models/base.py 128-158)                                            *)
(***************************************************************************)

\* the value stored under key k of a dict
DictGet(d, k) == d[CHOOSE n \in 1..Len(d) : d[n].key = k].value

\* the value get_command returns for a key that is not in the mapping
None == [none |-> TRUE]

\* MCTModel.has_command: command_name in self.commands
has_command(m, command_name) == command_name \in DictKeys(m.commands)

\* MCTModel.get_command: self.commands.get(command_name)
get_command(m, command_name) ==
    IF has_command(m, command_name) THEN DictGet(m.commands, command_name) ELSE None

\* str.startswith on command names
NameStartsWith(name, prefix) ==
    Len(name) >= Len(prefix) /\ SubSeq(name, 1, Len(prefix)) = prefix

\* MCTModel.get_commands_by_type: the entries whose name starts with the prefix
get_commands_by_type(m, command_type) ==
    SelectSeq(m.commands, LAMBDA e : NameStartsWith(e.key, command_type))

(***************************************************************************)
(* TaperedSectionParser (src/parsers/tapered_section_parsers.py)           *)
(***************************************************************************)

LowerChar(c) ==
    IF \E k \in 1..26 : UpperLetters[k] = c
    THEN LowerLetters[CHOOSE k \in 1..26 : UpperLetters[k] = c]
    ELSE c

\* str.lower()
Lower(s) == [k \in 1..Len(s) |-> LowerChar(s[k])]

\* the longest prefix of s made of digits: what a leading (\d+) matches
RECURSIVE LeadDigits(_)
LeadDigits(s) ==
    IF s # <<>> /\ Head(s) \in DigitChars THEN <<Head(s)>> \o LeadDigits(Tail(s)) ELSE <<>>

Drop(s, n) == SubSeq(s, n + 1, Len(s))

\* re.match(r'(\d+)to(\d+)', group): the two numbers and what follows them
MatchTo(group) ==
    LET d1 == LeadDigits(group)
        r1 == Drop(group, Len(d1))
        d2 == LeadDigits(Drop(r1, 2))
    IN  [ok |-> d1 # <<>> /\ StartsWith(r1, <<"t", "o">>) /\ d2 # <<>>,
         start |-> DigitsVal(d1), end |-> DigitsVal(d2),
         rest |-> Drop(r1, 2 + Len(d2))]

\* re.match(r'(\d+)to(\d+)by(\d+)', group)
MatchToBy(group) ==
    LET By(mt, d3) ==
            [ok |-> mt.ok /\ StartsWith(mt.rest, <<"b", "y">>) /\ d3 # <<>>,
             start |-> mt.start, end |-> mt.end, step |-> DigitsVal(d3)]
        After(mt) == By(mt, LeadDigits(Drop(mt.rest, 2)))
    IN  After(MatchTo(group))

\* the ids one group of an element list stands for
\* (tapered_section_parsers.py 41-64); range() raises for a step of 0
ElementGroup(group) ==
    LET Ids(by, to) ==
            IF by.ok
            THEN IF by.step = 0 THEN Raised("ValueError")
                 ELSE Returned(PyRange(by.start, by.end + 1, by.step))
            ELSE IF to.ok THEN Returned(PyRange(to.start, to.end + 1, 1))
            ELSE IF IsDigits(group) THEN Returned(<<DigitsVal(group)>>)
            ELSE Returned(<<>>)
    IN  Ids(MatchToBy(group), MatchTo(group))

RECURSIVE ElementGroups(_, _)
ElementGroups(elem_groups, result) ==
    IF elem_groups = <<>> THEN Returned(result)
    ELSE LET Extend(r) ==
                 IF r.raised THEN r
                 ELSE ElementGroups(Tail(elem_groups), result \o r.value)
         IN  Extend(ElementGroup(Head(elem_groups)))

\* TaperedSectionParser.parse_element_list (tapered_section_parsers.py 26-66)
parse_element_list(elem_list_str) == ElementGroups(SplitWS(elem_list_str), <<>>)

\* parts[k].strip() if len(parts) > k and parts[k].strip() else None, for
\* the 1-based position k; None is the empty string here, which no present
\* field equals
FieldOrNone(parts, k) == IF Len(parts) >= k THEN Strip(parts[k]) ELSE <<>>

\* mutant: the row is stored with the 0-based index of its line
TsLineNums_ZeroBased(line_num) == <<line_num - 1>>

\* line_nums=[line_num] (tapered_section_parsers.py 160)
TsLineNums(line_num) == <<line_num>>

\* TaperedSectionParser.parse_ts_group_line (tapered_section_parsers.py
\* 104-167): the model after the call and the record, if one is returned
parse_ts_group_line(raw, line_num, m) ==
    LET Record(line, parts, elements) ==
            IF elements.raised
            THEN [model |-> AddError(m, LogEntry("parse_ts_group_line", line, line_num,
                                                 elements.value)),
                  some |-> FALSE, data |-> None]
            ELSE [model |-> m,
                  some |-> TRUE,
                  data |-> [id |-> Len(get_commands_by_type(m, "TS-GROUP")),
                            name |-> parts[1],
                            elements |-> elements.value,
                            z_variation |-> [type |-> Lower(Strip(parts[3])),
                                             exponent |-> FieldOrNone(parts, 4),
                                             from_direction |-> FieldOrNone(parts, 5),
                                             distance |-> FieldOrNone(parts, 6)],
                            y_variation |-> [type |-> Lower(Strip(parts[7])),
                                             exponent |-> FieldOrNone(parts, 8),
                                             from_direction |-> FieldOrNone(parts, 9),
                                             distance |-> FieldOrNone(parts, 10)],
                            section_control_method |->
                                IF FieldOrNone(parts, 11) # <<>> THEN FieldOrNone(parts, 11)
                                ELSE <<"0">>,
                            groups |-> <<>>,
                            raw_lines |-> <<line>>,
                            line_nums |-> TsLineNums(line_num)]]
        Row(line, parts) ==
            IF Len(parts) < 7
            THEN [model |-> [m EXCEPT !.warnings =
                               Append(@, LogEntry("parse_ts_group_line", line, line_num,
                                                  "ignored row"))],
                  some |-> FALSE, data |-> None]
            ELSE Record(line, parts, parse_element_list(parts[2]))
        Stripped(split) == [k \in 1..Len(split) |-> Strip(split[k])]
        Parts(line) == Row(line, Stripped(SplitOn(line, <<",">>)))
    IN  Parts(Strip(SelectSeq(raw, LAMBDA c : c # "\\")))

\* mutant: the key is numbered by the rows stored before, less one
TsGroupKey_Stuck(m) ==
    "TS-GROUP_" \o ToString(IF Len(get_commands_by_type(m, "TS-GROUP")) = 0 THEN 0
                            ELSE Len(get_commands_by_type(m, "TS-GROUP")) - 1)

\* f"TS-GROUP_{group_id}" with group_id = len(get_commands_by_type('TS-GROUP'))
\* (tapered_section_parsers.py 99-100)
TsGroupKey(m) == "TS-GROUP_" \o ToString(Len(get_commands_by_type(m, "TS-GROUP")))

TS_GROUP_HEADER == <<"*">> \o MCTCommand.TS_GROUP

\* the first loop (tapered_section_parsers.py 81-86): the 0-based index of
\* the first line that is neither empty, a comment nor the header
RECURSIVE TsSkipHeader(_, _)
TsSkipHeader(blines, k) ==
    IF k < Len(blines)
       /\ LET line == Strip(blines[k + 1])
          IN  ~(line # <<>> /\ ~StartsWith(line, <<";">>)
                /\ ~StartsWith(line, TS_GROUP_HEADER))
    THEN TsSkipHeader(blines, k + 1)
    ELSE k

\* the second loop (tapered_section_parsers.py 89-102) from the 0-based
\* index k on
RECURSIVE TsRows(_, _, _, _)
TsRows(blines, line_nums, k, m) ==
    IF ~(k < Len(blines)) THEN m
    ELSE LET line == Strip(blines[k + 1])
         IN  IF line = <<>> \/ StartsWith(line, <<";">>)
             THEN TsRows(blines, line_nums, k + 1, m)
             ELSE LET Stored(r) ==
                          IF r.some THEN add_command(r.model, TsGroupKey(r.model), r.data)
                          ELSE r.model
                  IN  TsRows(blines, line_nums, k + 1,
                             Stored(parse_ts_group_line(line, line_nums[k + 1], m)))

\* TaperedSectionParser.parse_ts_group (tapered_section_parsers.py 68-102)
parse_ts_group(blines, line_nums, m) ==
    IF Len(blines) < 2
    THEN DecReturn(AddError(m, LogEntry("parse_ts_group", <<>>, 0, "missing group rows")))
    ELSE DecReturn(TsRows(blines, line_nums, TsSkipHeader(blines, 0), m))

(***************************************************************************)
(* SectionParser.parse_section (src/parsers/section_parsers.py 27-130)     *)
(***************************************************************************)

\* decimal text of a natural number, as an f-string writes it
RECURSIVE NatToStr(_)
NatToStr(n) ==
    LET d == <<"0", "1", "2", "3", "4", "5", "6", "7", "8", "9">>[(n % 10) + 1]
    IN  IF n < 10 THEN <<d>> ELSE Append(NatToStr(n \div 10), d)

\* the parameters of a database section (section_parsers.py 63-76): the
\* fields from the 0-based index j on
RECURSIVE SectionDbParams(_, _, _)
SectionDbParams(parts, j, params) ==
    IF j >= Len(parts) THEN params
    ELSE LET param == Strip(parts[j + 1])
             eq == Find(param, <<"=">>)
         IN  IF param = <<>> THEN SectionDbParams(parts, j + 1, params)
             ELSE IF eq # -1
             THEN SectionDbParams(parts, j + 1,
                      DictSet(params, Strip(Lower(SubSeq(param, 1, eq))),
                              Strip(SubSeq(param, eq + 2, Len(param)))))
             ELSE SectionDbParams(parts, j + 1,
                      DictSet(params, <<"p", "a", "r", "a", "m">> \o NatToStr(j - 2), param))

\* the member section numbers of a composite section (section_parsers.py
\* 94-105): the all-digit fields from index 2 on
SectionCompositeIds(parts) ==
    LET rest == SubSeq(parts, 3, Len(parts))
        nums == SelectSeq(rest, LAMBDA f : IsDigits(Strip(f)))
    IN  [k \in 1..Len(nums) |-> DigitsVal(Strip(nums[k]))]

\* the parameter list of a directly defined section (section_parsers.py
\* 107-120): a float where the field converts, the field itself otherwise
SectionParamList(parts) ==
    LET rest == SelectSeq(SubSeq(parts, 3, Len(parts)), LAMBDA f : Strip(f) # <<>>)
    IN  [k \in 1..Len(rest) |->
            IF FloatOk(Strip(rest[k]))
            THEN [num |-> TRUE, val |-> FloatVal(Strip(rest[k])), text |-> <<>>]
            ELSE [num |-> FALSE, val |-> [m |-> 0, e |-> 0], text |-> Strip(rest[k])]]

SectionTypeDb == {<<"D", "B", "S", "E", "C", "C">>, <<"D", "B", "S", "E", "C", "T">>}
SectionTypeTapered == {<<"T", "A", "P", "E", "R", "E", "D">>, <<"V", "A", "R", "I", "A", "B", "L", "E">>}
SectionTypeComposite == {<<"C", "O", "M", "P", "O", "S", "I", "T", "E">>, <<"C", "O", "M", "P">>}

\* the params of one row, by section type (section_parsers.py 60-120);
\* raised: a conversion of a tapered section failed
SectionParams(parts) ==
    LET section_type == Strip(parts[2])
    IN  IF section_type \in SectionTypeDb
        THEN Returned(SectionDbParams(parts, 3,
                 DictSet(<<>>, <<"d", "b", "_", "t", "y", "p", "e">>, Strip(parts[3]))))
        ELSE IF section_type \in SectionTypeTapered
        THEN IF ~IntOk(parts[3]) \/ (Len(parts) > 3 /\ ~IntOk(parts[4]))
             THEN Raised("ValueError")
             ELSE LET p1 == DictSet(<<>>, <<"s", "t", "a", "r", "t", "_", "s", "e", "c", "t", "i", "o", "n">>, IntVal(parts[3]))
                      p2 == IF Len(parts) > 3
                            THEN DictSet(p1, <<"e", "n", "d", "_", "s", "e", "c", "t", "i", "o", "n">>, IntVal(parts[4]))
                            ELSE p1
                  IN  Returned(IF Len(parts) > 4
                               THEN DictSet(p2, <<"i", "n", "t", "e", "r", "p", "o", "l", "a", "t", "i", "o", "n">>, Strip(parts[5]))
                               ELSE p2)
        ELSE IF section_type \in SectionTypeComposite
        THEN Returned(DictSet(<<>>, <<"s", "e", "c", "t", "i", "o", "n", "s">>, SectionCompositeIds(parts)))
        ELSE Returned(DictSet(<<>>, <<"p", "a", "r", "a", "m", "s">>, SectionParamList(parts)))

\* the loop of parse_section over the block's lines from position k on
\* (section_parsers.py 42-126); position 1 is the first line of the block
RECURSIVE SectionRows(_, _, _, _, _)
SectionRows(blines, line_nums, k, m, sections) ==
    IF k > Len(blines)
    THEN add_command(m, "SECTION",
             [sections |-> sections, raw_lines |-> blines, line_nums |-> line_nums])
    ELSE LET line == PreprocessLine(blines[k])
             parts == SplitComma(line)
             skip(kind) == SectionRows(blines, line_nums, k + 1,
                               AddError(m, LogEntry("parse_section", line, line_nums[k], kind)),
                               sections)
         IN  IF line = <<>> \/ StartsWith(line, <<";">>)
             THEN SectionRows(blines, line_nums, k + 1, m, sections)
             ELSE IF Len(parts) < 3 THEN skip("invalid section definition")
             ELSE IF ~IntOk(parts[1]) THEN skip("ValueError")
             ELSE IF SectionParams(parts).raised THEN skip("ValueError")
             ELSE SectionRows(blines, line_nums, k + 1, m,
                      DictSet(sections, IntVal(parts[1]),
                              [id |-> IntVal(parts[1]),
                               type |-> Strip(parts[2]),
                               params |-> SectionParams(parts).value]))

parse_section(blines, line_nums, m) ==
    DecReturn(SectionRows(blines, line_nums, 1, m, <<>>))

(***************************************************************************)
(* MaterialParser.parse_material (src/parsers/material_parsers.py 28-138)  *)
(***************************************************************************)

\* the values of MaterialType (commands.py 132-137)
MaterialTypeValues == {<<"S", "T", "E", "E", "L">>, <<"C", "O", "N", "C">>, <<"S", "R", "C">>, <<"U", "S", "E", "R">>}

YES == <<"Y", "E", "S">>

\* float(f) if f.strip() else 0.0
FloatOrZero(f) == IF Strip(f) # <<>> THEN FloatVal(f) ELSE [m |-> 0, e |-> 0]

\* a conversion guarded by try/except fails (material_parsers.py 51-55,
\* 72-100): the row is logged and skipped
MaterialRowError(parts) ==
    \/ ~IntOk(parts[1])
    \/ Strip(parts[4]) # <<>> /\ ~FloatOk(parts[4])
    \/ Strip(parts[5]) # <<>> /\ ~FloatOk(parts[5])
    \/ Strip(parts[9]) # <<>> /\ ~FloatOk(parts[9])
    \/ Strip(parts[10]) # <<>> /\ ~IntOk(parts[10])

MaterialDataType(parts) == IF Strip(parts[10]) # <<>> THEN IntVal(parts[10]) ELSE 0

\* a field at the 1-based position k is present and not blank
Given(parts, k) == Len(parts) >= k /\ Strip(parts[k]) # <<>>

\* a float() of the type-specific properties fails; these conversions are
\* outside any try block (material_parsers.py 104-117)
MaterialPropertyError(parts) ==
    /\ Strip(parts[2]) \in {<<"S", "T", "E", "E", "L">>, <<"C", "O", "N", "C">>, <<"U", "S", "E", "R">>}
    /\ \/ MaterialDataType(parts) = 1 /\ Given(parts, 15) /\ ~FloatOk(parts[15])
       \/ MaterialDataType(parts) = 2
          /\ \E k \in 11..15 : Given(parts, k) /\ ~FloatOk(parts[k])

\* properties of one row (material_parsers.py 102-122)
MaterialProperties(parts) ==
    LET p0 == DictSet(<<>>, <<"d", "a", "t", "a", "_", "t", "y", "p", "e">>, MaterialDataType(parts))
        opt(k) == IF Len(parts) >= k THEN Strip(parts[k]) ELSE <<>>
        num(k) == IF Given(parts, k) THEN FloatVal(parts[k]) ELSE [m |-> 0, e |-> 0]
    IN  IF Strip(parts[2]) \notin {<<"S", "T", "E", "E", "L">>, <<"C", "O", "N", "C">>, <<"U", "S", "E", "R">>} THEN p0
        ELSE IF MaterialDataType(parts) = 1
        THEN DictSet(DictSet(DictSet(DictSet(DictSet(p0,
                 <<"c", "o", "d", "e">>, Strip(parts[11])),
                 <<"p", "r", "o", "d", "u", "c", "t">>, opt(12)),
                 <<"d", "b">>, opt(13)),
                 <<"u", "s", "e", "_", "e", "l", "a", "s", "t">>, Len(parts) > 13 /\ Upper(parts[14]) = YES),
                 <<"e", "l", "a", "s", "t">>, num(15))
        ELSE IF MaterialDataType(parts) = 2
        THEN DictSet(DictSet(DictSet(DictSet(DictSet(p0,
                 <<"e", "l", "a", "s", "t">>, FloatOrZero(parts[11])),
                 <<"p", "o", "i", "s", "s", "o", "n">>, num(12)),
                 <<"t", "h", "e", "r", "m", "a", "l">>, num(13)),
                 <<"d", "e", "n", "s", "i", "t", "y">>, num(14)),
                 <<"m", "a", "s", "s">>, num(15))
        ELSE p0

\* the loop of parse_material over the block's lines from position k on
\* (material_parsers.py 42-135); an exception outside the try blocks
\* leaves the decoder
RECURSIVE MaterialRows(_, _, _, _, _)
MaterialRows(blines, line_nums, k, m, materials) ==
    IF k > Len(blines)
    THEN DecReturn(add_command(m, "MATERIAL",
             [materials |-> materials, raw_lines |-> blines, line_nums |-> line_nums]))
    ELSE LET line == PreprocessLine(blines[k])
             parts == SplitComma(line)
             skip(kind) == MaterialRows(blines, line_nums, k + 1,
                               AddError(m, LogEntry("parse_material", line, line_nums[k], kind)),
                               materials)
         IN  IF line = <<>> \/ StartsWith(line, <<";">>)
             THEN MaterialRows(blines, line_nums, k + 1, m, materials)
             ELSE IF Len(parts) < 11 THEN skip("invalid material definition")
             ELSE IF MaterialRowError(parts) THEN skip("ValueError")
             ELSE IF MaterialPropertyError(parts) THEN DecRaise(m, "ValueError")
             ELSE IF Strip(parts[2]) \notin MaterialTypeValues
             THEN DecRaise(m, "ValidationError")
             ELSE MaterialRows(blines, line_nums, k + 1, m,
                      DictSet(materials, IntVal(parts[1]),
                          [id |-> IntVal(parts[1]),
                           type |-> Strip(parts[2]),
                           name |-> Strip(parts[3]),
                           specific_heat |-> FloatOrZero(parts[4]),
                           heat_coefficient |-> FloatOrZero(parts[5]),
                           plastic |-> Strip(parts[6]),
                           temperature_unit |-> Strip(parts[7]),
                           mass_considered |-> Upper(parts[8]) = YES,
                           damping_ratio |-> FloatOrZero(parts[9]),
                           properties |-> MaterialProperties(parts)]))

parse_material(blines, line_nums, m) == MaterialRows(blines, line_nums, 1, m, <<>>)

(***************************************************************************)
(* NodeElementParser (src/parsers/node_element_parsers.py)                 *)
(***************************************************************************)

NO == <<"N", "O">>

\* `if not line or line.startswith(';') or line.startswith('*'): continue`
SkippedLine(line) ==
    line = <<>> \/ StartsWith(line, <<";">>) \/ StartsWith(line, <<"*">>)

\* one of the conversions in the try blocks of a NODE row raises ValueError
\* (node_element_parsers.py 53-75)
NodeRequiredError(parts) ==
    ~IntOk(parts[1]) \/ ~FloatOk(parts[2]) \/ ~FloatOk(parts[3]) \/ ~FloatOk(parts[4])

\* one of the float() calls of the optional fields raises ValueError; they
\* stand outside any try block (node_element_parsers.py 80-82)
NodeOptionalError(parts) ==
    \/ Len(parts) > 6 /\ Lower(parts[7]) \notin {Lower(YES), Lower(NO)} /\ ~FloatOk(parts[7])
    \/ Len(parts) > 7 /\ ~FloatOk(parts[8])
    \/ Len(parts) > 8 /\ ~FloatOk(parts[9])

\* the node built from a row (node_element_parsers.py 78-94)
NodeRecord(parts) ==
    [id |-> IntVal(parts[1]),
     x |-> FloatVal(parts[2]),
     y |-> FloatVal(parts[3]),
     z |-> FloatVal(parts[4]),
     cs_id |-> IF Len(parts) > 4 /\ IsDigits(parts[5]) THEN DigitsVal(parts[5]) ELSE 0,
     has_rotation |-> IF Len(parts) > 5 THEN parts[6] = YES ELSE FALSE,
     rx |-> IF Len(parts) > 6 /\ Lower(parts[7]) \notin {Lower(YES), Lower(NO)}
            THEN FloatVal(parts[7]) ELSE [m |-> 0, e |-> 0],
     ry |-> IF Len(parts) > 7 THEN FloatVal(parts[8]) ELSE [m |-> 0, e |-> 0],
     rz |-> IF Len(parts) > 8 THEN FloatVal(parts[9]) ELSE [m |-> 0, e |-> 0]]

\* mutant: the row loop ends at the first row with too few fields
NodeShortRow_Stops(blines, k) == Len(blines) + 1

\* `continue` after a row with too few fields (node_element_parsers.py 50):
\* the position the loop goes on with
NodeShortRow(blines, k) == k + 1

\* the loop of parse_node over the block's lines from position k on
\* (node_element_parsers.py 40-97); an exception outside the try blocks
\* leaves the decoder
RECURSIVE NodeRows(_, _, _, _, _)
NodeRows(blines, line_nums, k, m, nodes) ==
    IF k > Len(blines)
    THEN DecReturn(IF nodes # <<>>
                   THEN add_command(m, "NODE",
                            [nodes |-> nodes, raw_lines |-> blines, line_nums |-> line_nums])
                   ELSE m)
    ELSE LET Logged(line, kind) ==
                 AddError(m, LogEntry("parse_node", line, line_nums[k], kind))
             Row(line, parts) ==
                 IF SkippedLine(line) THEN NodeRows(blines, line_nums, k + 1, m, nodes)
                 ELSE IF Len(parts) < 4
                 THEN NodeRows(blines, line_nums, NodeShortRow(blines, k),
                               Logged(line, "too few fields"), nodes)
                 ELSE IF NodeRequiredError(parts)
                 THEN NodeRows(blines, line_nums, k + 1, Logged(line, "ValueError"), nodes)
                 ELSE IF NodeOptionalError(parts) THEN DecRaise(m, "ValueError")
                 ELSE NodeRows(blines, line_nums, k + 1, m,
                               DictSet(nodes, IntVal(parts[1]), NodeRecord(parts)))
             Fields(line) == Row(line, SplitComma(line))
         IN  Fields(PreprocessLine(blines[k]))

parse_node(blines, line_nums, m) == NodeRows(blines, line_nums, 1, m, <<>>)

\* the node ids of an ELEMENT row: the integers from position j on, up to
\* the first field that is not one (node_element_parsers.py 160-168)
RECURSIVE ElementNodes(_, _, _)
ElementNodes(parts, j, nodes) ==
    IF j <= Len(parts) /\ IntOk(parts[j])
    THEN ElementNodes(parts, j + 1, Append(nodes, IntVal(parts[j])))
    ELSE nodes

\* the options after the node ids (node_element_parsers.py 183-191), as the
\* keys 'beta' and 'local' they add to the element
RECURSIVE ElementOptions(_, _, _)
ElementOptions(parts, j, opts) ==
    IF j > Len(parts) THEN opts
    ELSE IF Upper(parts[j]) = <<"B", "E", "T", "A">>
    THEN ElementOptions(parts, j + 1,
             IF j + 1 <= Len(parts) /\ FloatOk(parts[j + 1])
             THEN DictSet(opts, "beta", FloatVal(parts[j + 1])) ELSE opts)
    ELSE IF Upper(parts[j]) = <<"L", "O", "C", "A", "L">>
    THEN ElementOptions(parts, j + 1, DictSet(opts, "local", TRUE))
    ELSE ElementOptions(parts, j + 1, opts)

\* the loop of parse_element over the block's lines from position k on
\* (node_element_parsers.py 123-191)
RECURSIVE ElementRows(_, _, _, _, _)
ElementRows(blines, line_nums, k, m, elements) ==
    IF k > Len(blines)
    THEN DecReturn(IF elements # <<>>
                   THEN add_command(m, "ELEMENT",
                            [elements |-> elements, raw_lines |-> blines,
                             line_nums |-> line_nums])
                   ELSE m)
    ELSE LET Logged(line, kind) ==
                 AddError(m, LogEntry("parse_element", line, line_nums[k], kind))
             Built(line, parts, nodes) ==
                 IF Len(nodes) < 2
                 THEN ElementRows(blines, line_nums, k + 1,
                                  Logged(line, "too few nodes"), elements)
                 ELSE ElementRows(blines, line_nums, k + 1, m,
                          DictSet(elements, IntVal(parts[1]),
                              [id |-> IntVal(parts[1]),
                               type |-> Upper(parts[2]),
                               mat_id |-> IntVal(parts[3]),
                               sect_id |-> IntVal(parts[4]),
                               nodes |-> nodes,
                               options |-> ElementOptions(parts, 5 + Len(nodes), <<>>)]))
             Row(line, parts) ==
                 IF SkippedLine(line) THEN ElementRows(blines, line_nums, k + 1, m, elements)
                 ELSE IF Len(parts) < 7
                 THEN ElementRows(blines, line_nums, k + 1,
                                  Logged(line, "too few fields"), elements)
                 ELSE IF ~IntOk(parts[1]) \/ ~IntOk(parts[3]) \/ ~IntOk(parts[4])
                 THEN ElementRows(blines, line_nums, k + 1,
                                  Logged(line, "ValueError"), elements)
                 ELSE Built(line, parts, ElementNodes(parts, 5, <<>>))
             Fields(line) == Row(line, SplitComma(line))
         IN  Fields(PreprocessLine(blines[k]))

parse_element(blines, line_nums, m) == ElementRows(blines, line_nums, 1, m, <<>>)

(***************************************************************************)
(* Options of the form KEY=value in the tail of a row, and the records of  *)
(* src/models/commands.py built from lists                                 *)
(***************************************************************************)

\* ' '.join(fields)
RECURSIVE JoinSpace(_)
JoinSpace(fields) ==
    IF fields = <<>> THEN <<>>
    ELSE IF Len(fields) = 1 THEN fields[1]
    ELSE fields[1] \o <<" ">> \o JoinSpace(Tail(fields))

\* the characters \w matches in the modelled inputs
WordChars ==
    {LowerLetters[k] : k \in 1..26} \cup {UpperLetters[k] : k \in 1..26}
        \cup DigitChars \cup {"_"}

\* the longest prefix of s made of characters of the class
RECURSIVE LeadIn(_, _)
LeadIn(s, class) ==
    IF s # <<>> /\ Head(s) \in class THEN <<Head(s)>> \o LeadIn(Tail(s), class) ELSE <<>>

\* re.search(key + r'(<class>+)', s): group(1) of the leftmost match, <<>>
\* when there is no match
SearchOption(s, key, class) ==
    LET At(hits) ==
            IF hits = {} THEN <<>>
            ELSE LeadIn(Drop(s, (CHOOSE k \in hits : \A h \in hits : k <= h) + Len(key) - 1),
                        class)
    IN  At({k \in 1..(Len(s) - Len(key)) :
               SubSeq(s, k, k + Len(key) - 1) = key /\ s[k + Len(key)] \in class})

\* the options dict filled by the loop over the patterns GROUP=(\w+),
\* LOCAL=(\d+), ACTIVE=(\w+) (constraint_parsers.py 66-74)
RowOptions(s, withGroup) ==
    LET Active(o) ==
            IF SearchOption(s, <<"A", "C", "T", "I", "V", "E", "=">>, WordChars) # <<>>
            THEN DictSet(o, "active",
                         SearchOption(s, <<"A", "C", "T", "I", "V", "E", "=">>, WordChars))
            ELSE o
        Local(o) ==
            Active(IF SearchOption(s, <<"L", "O", "C", "A", "L", "=">>, DigitChars) # <<>>
                   THEN DictSet(o, "local",
                                SearchOption(s, <<"L", "O", "C", "A", "L", "=">>, DigitChars))
                   ELSE o)
    IN  Local(IF withGroup /\ SearchOption(s, <<"G", "R", "O", "U", "P", "=">>, WordChars) # <<>>
              THEN DictSet(<<>>, "group",
                           SearchOption(s, <<"G", "R", "O", "U", "P", "=">>, WordChars))
              ELSE <<>>)

\* mutant: the short row is skipped without an error entry
ShortRowLogged_Silent(m, src, line, num) == m

\* a row with too few fields: one error entry with the row and its line
\* number (constraint_parsers.py 44-46, 106-108; load_parsers.py
\* 313-315, 397-399)
ShortRowLogged(m, src, line, num) == AddError(m, LogEntry(src, line, num, "too few fields"))

(***************************************************************************)
(* LoadParser.parse_beamload and parse_prestress                           *)
(* (src/parsers/load_parsers.py 296-437)                                   *)
(***************************************************************************)

\* load_values: the floats of fields 3 and 4 (0.0 where float() fails),
\* padded with 0.0 to two values (load_parsers.py 329-338)
BeamLoadValues(parts) ==
    [j \in 1..2 |-> IF j + 3 <= Len(parts) /\ FloatOk(parts[j + 3]) THEN FloatVal(parts[j + 3])
                    ELSE [m |-> 0, e |-> 0]]

\* the loop of parse_beamload over lines[1:] from position k on; the record
\* keeps the list under the extra field `beamloads`, `loads` keeps its
\* default (load_parsers.py 307-363, commands.py 293-295)
RECURSIVE BeamLoadRows(_, _, _, _, _)
BeamLoadRows(blines, line_nums, k, m, beamloads) ==
    IF k > Len(blines)
    THEN DecReturn(add_command(m, "BEAMLOAD",
             [loads |-> <<>>, beamloads |-> beamloads, raw_lines |-> blines,
              line_nums |-> line_nums]))
    ELSE LET Decoded(line, parts, ids) ==
                 IF ids.raised
                 THEN BeamLoadRows(blines, line_nums, k + 1,
                          AddError(m, LogEntry("parse_beamload", line, line_nums[k],
                                               "ValueError")),
                          beamloads)
                 ELSE BeamLoadRows(blines, line_nums, k + 1, m,
                          Append(beamloads,
                              [elem_ids |-> ids.value,
                               type |-> parts[2],
                               direction |-> parts[3],
                               values |-> BeamLoadValues(parts),
                               options |-> IF Len(parts) > 5
                                           THEN RowOptions(JoinSpace(Drop(parts, 5)), TRUE)
                                           ELSE <<>>]))
             Row(line, parts) ==
                 IF line = <<>> THEN BeamLoadRows(blines, line_nums, k + 1, m, beamloads)
                 ELSE IF Len(parts) < 4
                 THEN BeamLoadRows(blines, line_nums, k + 1,
                          ShortRowLogged(m, "parse_beamload", line, line_nums[k]), beamloads)
                 ELSE Decoded(line, parts, ParseIndexList(parts[1]))
             Fields(line) == Row(line, SplitComma(line))
         IN  Fields(Strip(blines[k]))

parse_beamload(blines, line_nums, m) == BeamLoadRows(blines, line_nums, 2, m, <<>>)

\* the loop of parse_prestress over lines[1:] from position k on; the
\* record is a plain dict (load_parsers.py 391-437)
RECURSIVE PrestressRows(_, _, _, _, _)
PrestressRows(blines, line_nums, k, m, prestresses) ==
    IF k > Len(blines)
    THEN DecReturn(add_command(m, "PRESTRESS",
             [prestresses |-> prestresses, raw_lines |-> blines, line_nums |-> line_nums]))
    ELSE LET Decoded(line, parts, ids) ==
                 IF ids.raised \/ \E j \in 3..6 : ~FloatOk(parts[j])
                 THEN PrestressRows(blines, line_nums, k + 1,
                          AddError(m, LogEntry("parse_prestress", line, line_nums[k],
                                               "ValueError")),
                          prestresses)
                 ELSE PrestressRows(blines, line_nums, k + 1, m,
                          Append(prestresses,
                              [elem_ids |-> ids.value,
                               type |-> parts[2],
                               tension |-> FloatVal(parts[3]),
                               drape_i |-> FloatVal(parts[4]),
                               drape_m |-> FloatVal(parts[5]),
                               drape_j |-> FloatVal(parts[6]),
                               group |-> IF Len(parts) > 6 THEN Strip(parts[7]) ELSE <<>>]))
             Row(line, parts) ==
                 IF line = <<>> THEN PrestressRows(blines, line_nums, k + 1, m, prestresses)
                 ELSE IF Len(parts) < 6
                 THEN PrestressRows(blines, line_nums, k + 1,
                          ShortRowLogged(m, "parse_prestress", line, line_nums[k]),
                          prestresses)
                 ELSE Decoded(line, parts, ParseIndexList(parts[1]))
             Fields(line) == Row(line, SplitComma(line))
         IN  Fields(Strip(blines[k]))

parse_prestress(blines, line_nums, m) == PrestressRows(blines, line_nums, 2, m, <<>>)

(***************************************************************************)
(* Inputs of parse_text: documents are sequences of raw lines (the result  *)
(* of text.splitlines()) drawn from a corpus                               *)
(***************************************************************************)

\* longest document, in lines
MaxLines == 4

LnVersion == <<" ", "*", "V", "E", "R", "S", "I", "O", "N", " ", "x", " ", ";", " ", "c">>
LnRow == <<"8", ".", "8", ".", "0", " ", ";", "c">>
LnStructype == <<"*", "S", "T", "R", "U", "C", "T", "Y", "P", "E">>
LnBstemper == <<"*", "B", "S", "T", "E", "M", "P", "E", "R">>
LnLowerCase == <<"*", "v", "e", "r", "s", "i", "o", "n">>
LnBareMarker == <<"*">>
LnComment == <<" ", ";", " ", "c">>

RawLines ==
    {LnVersion, LnRow, LnStructype, LnBstemper, LnLowerCase, LnBareMarker, LnComment}

(***************************************************************************)
(* State                                                                   *)
(***************************************************************************)

VARIABLES
    pc,              \* where the parser is: "idle", "split", "dispatch", "done", "raised"
    text,            \* the document the caller is assembling (lines of the text)
    lines,           \* self.lines
    model,           \* self.model: commands, errors, warnings
    command_blocks,  \* _split_command_blocks: the dict being built / iterated
    current_cmd,     \* _split_command_blocks: current_cmd (<<>> is None)
    cmd_lines,       \* _split_command_blocks: cmd_lines
    cmd_line_nums,   \* _split_command_blocks: cmd_line_nums
    i,               \* _split_command_blocks: number of lines already scanned
    blk,             \* parse_text: position of the dispatch loop in command_blocks
    calls,           \* ghost: the decoder invocations made by the dispatch loop
    exc,             \* the exception that left parse_text ("" if none)
    idx_pc,          \* index decoder harness: "build", "done"
    idx_toks,        \* ghost: the tokens the index text was assembled from
    idx_text,        \* argument of _parse_index_list
    idx_out,         \* outcome of _parse_index_list
    bst_pc,          \* parse_bstemper: "build", "loop", "done"
    bst_lines,       \* parse_bstemper: lines
    bst_i,           \* parse_bstemper: i
    current_element_data, \* parse_bstemper: current_element_data
    temperatures,    \* parse_bstemper: temperatures
    dec_pc,          \* direct decoder call: "build", "done"
    dec_lines,       \* direct decoder call: lines
    dec_toks,        \* ghost: the tokens the data row was assembled from
    prior,           \* ghost: the outcomes of the earlier parse_text calls on this parser
    added,           \* ghost: the add_command calls made on the Result Model
    pre_pc,          \* _preprocess_line call: "build", "done"
    pre_line,        \* _preprocess_line: line
    pre_out,         \* _preprocess_line: the value returned
    pydantic,        \* the pydantic release of the build: "v1" or "v2"
    scan_dec,        \* decoder scan: the decoder whose loops run ("" when none)
    scan_pc,         \* decoder scan: "build", the loop about to be tested, "done"
    scan_lines,      \* decoder scan: lines
    scan_i,          \* decoder scan: i, the row index
    scan_j,          \* decoder scan: j, the token index of a coefficient scan
    scan_reads       \* ghost: the positions of lines read by the loop iterations, in order

parseVars == <<pc, text, lines, command_blocks, current_cmd, cmd_lines,
               cmd_line_nums, i, blk, calls, exc>>
idxVars == <<idx_pc, idx_toks, idx_text, idx_out>>
bstVars == <<bst_pc, bst_lines, bst_i, current_element_data, temperatures>>
decVars == <<dec_pc, dec_lines, dec_toks>>
preVars == <<pre_pc, pre_line, pre_out>>
scanVars == <<scan_dec, scan_pc, scan_lines, scan_i, scan_j, scan_reads>>
vars == <<parseVars, model, idxVars, bstVars, decVars, prior, added, preVars, pydantic, scanVars>>

\* MCTParser.__init__ (parser.py 52-75) with nothing parsed yet
ParserInit ==
    /\ pc = "idle"
    /\ text = <<>>
    /\ lines = <<>>
    /\ command_blocks = <<>>
    /\ current_cmd = <<>>
    /\ cmd_lines = <<>>
    /\ cmd_line_nums = <<>>
    /\ i = 0
    /\ blk = 0
    /\ calls = <<>>
    /\ exc = ""
    /\ prior = <<>>
    /\ added = <<>>

\* the releases of pydantic the program runs with: the models use the
\* `validator` and `class Config` API, which both provide
PydanticBuilds == {"v1", "v2"}

AnyBuild == pydantic \in PydanticBuilds

\* a build for documents whose decoders construct no record on which the
\* two releases differ
OneBuild == pydantic = "v1"

IdxIdle ==
    /\ idx_pc = "off"
    /\ idx_toks = <<>>
    /\ idx_text = <<>>
    /\ idx_out = Returned(<<>>)

BstIdle ==
    /\ bst_pc = "off"
    /\ bst_lines = <<>>
    /\ bst_i = 0
    /\ current_element_data = NoElement
    /\ temperatures = <<>>

DecIdle ==
    /\ dec_pc = "off"
    /\ dec_lines = <<>>
    /\ dec_toks = <<>>

PreIdle ==
    /\ pre_pc = "off"
    /\ pre_line = <<>>
    /\ pre_out = <<>>

ScanIdle ==
    /\ scan_dec = ""
    /\ scan_pc = "off"
    /\ scan_lines = <<>>
    /\ scan_i = 0
    /\ scan_j = 0
    /\ scan_reads = <<>>

\* a list of dicts given for a field declared as a Dict (commands.py 249,
\* 254, 322): a non-empty list is rejected with a ValidationError; the empty
\* list becomes {} under pydantic 1 (dict([])) and is rejected under pydantic 2
ListAsDict(rows) ==
    IF rows = <<>> /\ pydantic = "v1" THEN Returned(<<>>) ELSE Raised("ValidationError")

(***************************************************************************)
(* ConstraintParser (src/parsers/constraint_parsers.py)                    *)
(***************************************************************************)

\* dof_values (constraint_parsers.py 57-63)
ConstraintDof(parts) ==
    [j \in 1..6 |-> IF j + 2 <= Len(parts) /\ IntOk(parts[j + 2]) THEN IntVal(parts[j + 2])
                    ELSE 0]

\* the loop of parse_constraint over lines[1:] from position k on, and the
\* construction of the record (constraint_parsers.py 35-87)
RECURSIVE ConstraintRows(_, _, _, _, _)
ConstraintRows(blines, line_nums, k, m, constraints) ==
    IF k > Len(blines)
    THEN LET Stored(d) ==
                 IF d.raised THEN DecRaise(m, d.value)
                 ELSE DecReturn(add_command(m, "CONSTRAINT",
                          [constraints |-> d.value, raw_lines |-> blines,
                           line_nums |-> line_nums]))
         IN  Stored(ListAsDict(constraints))
    ELSE LET Decoded(line, parts, ids) ==
                 IF ids.raised
                 THEN ConstraintRows(blines, line_nums, k + 1,
                          AddError(m, LogEntry("parse_constraint", line, line_nums[k],
                                               "ValueError")),
                          constraints)
                 ELSE ConstraintRows(blines, line_nums, k + 1, m,
                          Append(constraints,
                              [ids |-> ids.value,
                               type |-> parts[2],
                               dof |-> ConstraintDof(parts),
                               options |-> IF Len(parts) > 8
                                           THEN RowOptions(JoinSpace(Drop(parts, 8)), TRUE)
                                           ELSE <<>>]))
             Row(line, parts) ==
                 IF line = <<>> THEN ConstraintRows(blines, line_nums, k + 1, m, constraints)
                 ELSE IF Len(parts) < 2
                 THEN ConstraintRows(blines, line_nums, k + 1,
                          ShortRowLogged(m, "parse_constraint", line, line_nums[k]),
                          constraints)
                 ELSE Decoded(line, parts, ParseIndexList(parts[1]))
             Fields(line) == Row(line, SplitComma(line))
         IN  Fields(Strip(blines[k]))

parse_constraint(blines, line_nums, m) == ConstraintRows(blines, line_nums, 2, m, <<>>)

\* spring_values (constraint_parsers.py 116-121)
SpringStiffness(parts) ==
    [j \in 1..6 |-> IF FloatOk(parts[j + 1]) THEN FloatVal(parts[j + 1])
                    ELSE [m |-> 0, e |-> 0]]

\* the loop of parse_spring over lines[1:] from position k on, and the
\* construction of the record (constraint_parsers.py 97-144)
RECURSIVE SpringRows(_, _, _, _, _)
SpringRows(blines, line_nums, k, m, springs) ==
    IF k > Len(blines)
    THEN LET Stored(d) ==
                 IF d.raised THEN DecRaise(m, d.value)
                 ELSE DecReturn(add_command(m, "SPRING",
                          [springs |-> d.value, raw_lines |-> blines,
                           line_nums |-> line_nums]))
         IN  Stored(ListAsDict(springs))
    ELSE LET Decoded(line, parts, ids) ==
                 IF ids.raised
                 THEN SpringRows(blines, line_nums, k + 1,
                          AddError(m, LogEntry("parse_spring", line, line_nums[k],
                                               "ValueError")),
                          springs)
                 ELSE SpringRows(blines, line_nums, k + 1, m,
                          Append(springs,
                              [ids |-> ids.value,
                               stiffness |-> SpringStiffness(parts),
                               options |-> RowOptions(JoinSpace(Drop(parts, 7)), FALSE)]))
             Row(line, parts) ==
                 IF line = <<>> THEN SpringRows(blines, line_nums, k + 1, m, springs)
                 ELSE IF Len(parts) < 8
                 THEN SpringRows(blines, line_nums, k + 1,
                          ShortRowLogged(m, "parse_spring", line, line_nums[k]), springs)
                 ELSE Decoded(line, parts, ParseIndexList(parts[1]))
             Fields(line) == Row(line, SplitComma(line))
         IN  Fields(Strip(blines[k]))

parse_spring(blines, line_nums, m) == SpringRows(blines, line_nums, 2, m, <<>>)

(***************************************************************************)
(* SectionParser.parse_sect_pscvalue (src/parsers/section_parsers.py       *)
(* 167-272)                                                                *)
(***************************************************************************)

\* s.split(sep, 1): at most one split, at the first occurrence
SplitOnce(s, sep) ==
    LET At(k) ==
            IF k = -1 THEN <<s>>
            ELSE <<SubSeq(s, 1, k), SubSeq(s, k + Len(sep) + 1, Len(s))>>
    IN  At(Find(s, sep))

\* the params of a SECT= line: the fields after the first, `k=v` stored
\* under k, any other non-empty field under param<i> (section_parsers.py
\* 212-221)
RECURSIVE PscParams(_, _, _)
PscParams(parts, j, params) ==
    IF j > Len(parts) THEN params
    ELSE LET Keyed(kv) == DictSet(params, Strip(kv[1]), Strip(kv[2]))
             Param(param) ==
                 IF param = <<>> THEN params
                 ELSE IF Contains(param, <<"=">>) THEN Keyed(SplitOnce(param, <<"=">>))
                 ELSE DictSet(params, <<"p", "a", "r", "a", "m">> \o NatToStr(j - 1), param)
         IN  PscParams(parts, j + 1, Param(Strip(parts[j])))

\* the points of a polygon line: the coordinates taken in pairs, a pair
\* that does not convert is left out, an odd last one too
\* (section_parsers.py 242-249)
RECURSIVE PscPoints(_, _, _)
PscPoints(coords, j, points) ==
    IF j + 1 > Len(coords) THEN points
    ELSE PscPoints(coords, j + 2,
             IF FloatOk(coords[j]) /\ FloatOk(coords[j + 1])
             THEN Append(points, <<FloatVal(coords[j]), FloatVal(coords[j + 1])>>)
             ELSE points)

PscFlags == {<<"Y", "E", "S">>, <<"N", "O">>, <<"T", "R", "U", "E">>, <<"F", "A", "L", "S", "E">>}

\* polygon_data of an OPOLY=, IPOLY= or VERTEX= line (section_parsers.py
\* 226-249); flag and lines are <<>> while the key is absent
PscPolygon(line) ==
    LET Flagged(type, coords, first) ==
            IF first \in PscFlags
            THEN [type |-> type, points |-> PscPoints(Tail(coords), 1, <<>>),
                  flag |-> <<first \in {<<"Y", "E", "S">>, <<"T", "R", "U", "E">>}>>,
                  lines |-> <<>>]
            ELSE [type |-> type, points |-> PscPoints(coords, 1, <<>>),
                  flag |-> <<>>, lines |-> <<>>]
        Typed(type, coords) == Flagged(type, coords, Upper(coords[1]))
        Halves(h) == Typed(Strip(h[1]), SplitComma(Strip(h[2])))
    IN  Halves(SplitOnce(line, <<"=">>))

PscPolygonStart(line) ==
    \/ StartsWith(line, <<"O", "P", "O", "L", "Y", "=">>)
    \/ StartsWith(line, <<"I", "P", "O", "L", "Y", "=">>)
    \/ StartsWith(line, <<"V", "E", "R", "T", "E", "X", "=">>)

\* `collecting_polygon and current_section`: current_section is <<>> for
\* None and <<id>> for an id; None and 0 are falsy
PscFlushes(st) == st.collecting_polygon /\ st.current_section # <<>> /\ st.current_section[1] # 0

\* mutant: the polygon in progress is dropped
PscAppendPolygon_Dropped(sections, sect_id, polygon_data) == sections

\* sections[current_section]["polygons"].append(polygon_data)
\* (section_parsers.py 194-196, 267-269); polygons is <<>> while the key is
\* absent
PscAppendPolygon(sections, sect_id, polygon_data) ==
    DictSet(sections, sect_id,
            [DictGet(sections, sect_id) EXCEPT !.polygons = Append(@, polygon_data)])

\* the flush at a SECT= line (section_parsers.py 192-198)
PscFlush(st) ==
    IF PscFlushes(st)
    THEN [st EXCEPT !.sections = PscAppendPolygon(@, st.current_section[1], st.polygon_data),
                    !.collecting_polygon = FALSE,
                    !.polygon_data = <<>>]
    ELSE st

\* a SECT= line after the flush (section_parsers.py 201-224)
PscSect(st, line, line_num) ==
    LET Opened(parts, idStr) ==
            IF IntOk(idStr)
            THEN [st EXCEPT !.current_section = <<IntVal(idStr)>>,
                            !.sections = DictSet(@, IntVal(idStr),
                                [params |-> PscParams(parts, 2, <<>>),
                                 polygons |-> <<>>, data_lines |-> <<>>])]
            ELSE [st EXCEPT !.model =
                     AddError(@, LogEntry("parse_sect_pscvalue", line, line_num, "ValueError"))]
        Split(parts) == Opened(parts, SplitOnce(parts[1], <<"=">>)[2])
    IN  Split(SplitOn(line, <<",">>))

\* a LINE= line while a polygon is collected (section_parsers.py 251-257)
PscLine(st, line) ==
    LET Kept(line_data) ==
            IF Len(line_data) >= 4
            THEN [st EXCEPT !.polygon_data = [@ EXCEPT !.lines = line_data]]
            ELSE st
    IN  Kept(SplitComma(Strip(SplitOnce(line, <<"=">>)[2])))

\* any other line of a section outside a polygon (section_parsers.py 259-263)
PscData(st, line) ==
    [st EXCEPT !.sections =
        DictSet(@, st.current_section[1],
                [DictGet(@, st.current_section[1]) EXCEPT !.data_lines = Append(@, line)])]

\* one pass of the loop body on a preprocessed line (section_parsers.py
\* 185-263)
PscStep(st, line, line_num) ==
    IF line = <<>> \/ StartsWith(line, <<";">>) THEN st
    ELSE IF StartsWith(line, <<"S", "E", "C", "T", "=">>) THEN PscSect(PscFlush(st), line, line_num)
    ELSE IF PscPolygonStart(line)
    THEN [st EXCEPT !.collecting_polygon = TRUE, !.polygon_data = PscPolygon(line)]
    ELSE IF st.collecting_polygon /\ StartsWith(line, <<"L", "I", "N", "E", "=">>)
    THEN PscLine(st, line)
    ELSE IF st.current_section # <<>> /\ st.current_section[1] # 0 /\ ~st.collecting_polygon
    THEN PscData(st, line)
    ELSE st

\* the loop over zip(lines, line_nums), the last flush and the record
\* (section_parsers.py 180-272)
RECURSIVE PscRows(_, _, _, _)
PscRows(blines, line_nums, k, st) ==
    IF k > Len(blines) \/ k > Len(line_nums)
    THEN DecReturn(add_command(st.model, "SECT-PSCVALUE",
             [sections |-> IF PscFlushes(st)
                           THEN PscAppendPolygon(st.sections, st.current_section[1],
                                                 st.polygon_data)
                           ELSE st.sections,
              raw_lines |-> blines, line_nums |-> line_nums]))
    ELSE PscRows(blines, line_nums, k + 1,
                 PscStep(st, PreprocessLine(blines[k]), line_nums[k]))

parse_sect_pscvalue(blines, line_nums, m) ==
    PscRows(blines, line_nums, 1,
            [sections |-> <<>>, current_section |-> <<>>, collecting_polygon |-> FALSE,
             polygon_data |-> <<>>, model |-> m])

(***************************************************************************)
(* StageParser.parse_load_seq (src/parsers/stage_parsers.py 27-113)        *)
(***************************************************************************)

\* the options of a stage row: the patterns GTYPE=(\w+) and ACTIVE=(\w+)
\* searched in the fields after the third (stage_parsers.py 83-91)
LoadSeqOptions(s) ==
    LET Active(o) ==
            IF SearchOption(s, <<"A", "C", "T", "I", "V", "E", "=">>, WordChars) # <<>>
            THEN DictSet(o, "active",
                         SearchOption(s, <<"A", "C", "T", "I", "V", "E", "=">>, WordChars))
            ELSE o
    IN  Active(IF SearchOption(s, <<"G", "T", "Y", "P", "E", "=">>, WordChars) # <<>>
               THEN DictSet(<<>>, "gtype",
                            SearchOption(s, <<"G", "T", "Y", "P", "E", "=">>, WordChars))
               ELSE <<>>)

\* the stage appended for a stage row (stage_parsers.py 78-98)
LoadSeqStage(stage_parts) ==
    [id |-> DigitsVal(stage_parts[1]),
     type |-> stage_parts[2],
     name |-> stage_parts[3],
     options |-> IF Len(stage_parts) > 3 THEN LoadSeqOptions(JoinSpace(Drop(stage_parts, 3)))
                 ELSE <<>>]

\* mutant: the scan of the stages does not advance past a stage row
LoadSeqAfterStage_Stuck(at) == at

\* i += 1 at the end of the inner loop (stage_parsers.py 100)
LoadSeqAfterStage(at) == at + 1

\* the inner loop from position `at` on (stage_parsers.py 71-100): the stages
\* read and the position it stops at
RECURSIVE LoadSeqStages(_, _, _)
LoadSeqStages(blines, at, stages) ==
    IF at <= Len(blines) /\ ~StartsWith(Strip(blines[at]), <<"*">>) /\ Strip(blines[at]) # <<>>
    THEN LET Taken(stage_parts) ==
                 IF Len(stage_parts) < 3 \/ ~IsDigits(stage_parts[1])
                 THEN [at |-> at, stages |-> stages]
                 ELSE LoadSeqStages(blines, LoadSeqAfterStage(at),
                                    Append(stages, LoadSeqStage(stage_parts)))
         IN  Taken(SplitWS(Strip(blines[at])))
    ELSE [at |-> at, stages |-> stages]

\* the outer loop from position `at` on and the construction of the record
\* (stage_parsers.py 35-113); current_seq is <<>> for None, <<seq>> otherwise
RECURSIVE LoadSeqLoop(_, _, _, _, _, _)
LoadSeqLoop(blines, line_nums, at, m, sequences, current_seq) ==
    IF at > Len(blines)
    THEN LET Stored(d) ==
                 IF d.raised THEN DecRaise(m, d.value)
                 ELSE DecReturn(add_command(m, "LOAD-SEQ",
                          [sequences |-> d.value, raw_lines |-> blines,
                           line_nums |-> line_nums]))
         IN  Stored(ListAsDict(sequences \o current_seq))
    ELSE LET Header(parts, scanned) ==
                 LoadSeqLoop(blines, line_nums, scanned.at, m, sequences \o current_seq,
                             <<[id |-> DigitsVal(parts[1]), name |-> parts[2],
                                stages |-> scanned.stages]>>)
             Row(line, parts) ==
                 IF line = <<>>
                 THEN LoadSeqLoop(blines, line_nums, at + 1, m, sequences, current_seq)
                 ELSE IF Len(parts) < 2
                 THEN LoadSeqLoop(blines, line_nums, at + 1,
                                  ShortRowLogged(m, "parse_load_seq", line, line_nums[at]),
                                  sequences, current_seq)
                 ELSE IF IsDigits(parts[1])
                 THEN Header(parts, LoadSeqStages(blines, at + 1, <<>>))
                 ELSE LoadSeqLoop(blines, line_nums, at + 1, m, sequences, current_seq)
             Fields(line) == Row(line, SplitWS(line))
         IN  Fields(Strip(blines[at]))

parse_load_seq(blines, line_nums, m) == LoadSeqLoop(blines, line_nums, 2, m, <<>>, <<>>)

(***************************************************************************)
(* LinkParser.parse_elasticlink (src/parsers/link_parsers.py 27-170)       *)
(***************************************************************************)

\* options[key] = parts[pos].strip() when the field is there and not empty
\* (pos counts the fields from 1)
LinkText(o, parts, pos, key) ==
    IF Len(parts) >= pos /\ Strip(parts[pos]) # <<>>
    THEN DictSet(o, key, Strip(parts[pos])) ELSE o

\* options[key] = float(parts[pos]) when the field is there, not empty and
\* converts; a ValueError is passed over
LinkFloat(o, parts, pos, key) ==
    IF Len(parts) >= pos /\ Strip(parts[pos]) # <<>> /\ FloatOk(parts[pos])
    THEN DictSet(o, key, FloatVal(parts[pos])) ELSE o

\* options[key] = parts[pos].strip().upper() == "YES" when the field is there
LinkFlag(o, parts, pos, key) ==
    IF Len(parts) >= pos THEN DictSet(o, key, Upper(Strip(parts[pos])) = YES) ELSE o

\* the stiffness list of a GEN row: the non-empty fields 6 to 17 as floats,
\* 0.0 for one that does not convert, filled up with 0.0 to 12 values
\* (link_parsers.py 66-77)
LinkStiffness(parts) ==
    LET Filled(given) ==
            given \o [n \in 1..(IF Len(given) < 12 THEN 12 - Len(given) ELSE 0) |->
                         [m |-> 0, e |-> 0]]
        Values(present) ==
            Filled([n \in 1..Len(present) |->
                       IF FloatOk(parts[present[n]]) THEN FloatVal(parts[present[n]])
                       ELSE [m |-> 0, e |-> 0]])
    IN  Values(SelectSeq([n \in 1..12 |-> n + 5],
                         LAMBDA j : j <= Len(parts) /\ Strip(parts[j]) # <<>>))

\* mutant: the catch-all counts the fields from 1
LinkParamKey_OneBased(j) == <<"p", "a", "r", "a", "m">> \o NatToStr(j - 5)

\* f"param{j-5}" for the 0-based field index j, here for the field at
\* position j counted from 1 (link_parsers.py 155)
LinkParamKey(j) == <<"p", "a", "r", "a", "m">> \o NatToStr(j - 6)

\* the catch-all for an unrecognized link type (link_parsers.py 151-155)
RECURSIVE LinkParams(_, _, _)
LinkParams(parts, j, o) ==
    IF j > Len(parts) THEN o
    ELSE LinkParams(parts, j + 1,
                    IF Strip(parts[j]) # <<>> THEN DictSet(o, LinkParamKey(j), Strip(parts[j]))
                    ELSE o)

\* the options of a row by its link type (link_parsers.py 62-155)
LinkOptions(link_type, parts) ==
    IF link_type = <<"G", "E", "N">>
    THEN LinkText(DictSet(<<>>, "stiffness", LinkStiffness(parts)), parts, 18, "group")
    ELSE IF link_type \in {<<"R", "I", "G", "I", "D">>, <<"S", "A", "D", "D", "L", "E">>}
    THEN LinkText(LinkFloat(LinkFloat(LinkFlag(<<>>, parts, 6, "bSHEAR"),
                                      parts, 7, "DRy"), parts, 8, "DRz"), parts, 9, "group")
    ELSE IF link_type \in {<<"T", "E", "N", "S">>, <<"C", "O", "M", "P">>}
    THEN LinkText(LinkFloat(LinkFloat(LinkFlag(LinkFloat(<<>>, parts, 6, "SDx"),
                                               parts, 7, "bSHEAR"),
                                      parts, 8, "DRy"), parts, 9, "DRz"), parts, 10, "group")
    ELSE IF Contains(link_type, <<"M", "U", "L", "T", "I">>)
    THEN LinkText(LinkFloat(LinkFlag(LinkText(LinkText(<<>>, parts, 6, "DIR"),
                                              parts, 7, "FUNCTION"),
                                     parts, 8, "bSHEAR"), parts, 9, "DRENDI"), parts, 10, "group")
    ELSE LinkParams(parts, 6, <<>>)

\* the loop of parse_elasticlink from position k on and the record
\* (link_parsers.py 41-170)
RECURSIVE LinkRows(_, _, _, _, _)
LinkRows(blines, line_nums, k, m, links) ==
    IF k > Len(blines)
    THEN DecReturn(add_command(m, "ELASTICLINK",
             [links |-> links, raw_lines |-> blines, line_nums |-> line_nums]))
    ELSE LET Logged(line, kind) ==
                 AddError(m, LogEntry("parse_elasticlink", line, line_nums[k], kind))
             Typed(parts, link_type) ==
                 LinkRows(blines, line_nums, k + 1, m,
                     DictSet(links, IntVal(parts[1]),
                         [id |-> IntVal(parts[1]),
                          master_node |-> IntVal(parts[2]),
                          slave_node |-> IntVal(parts[3]),
                          link_type |-> link_type,
                          angle |-> IF Strip(parts[5]) # <<>> THEN FloatVal(parts[5])
                                    ELSE [m |-> 0, e |-> 0],
                          options |-> LinkOptions(link_type, parts)]))
             Row(line, parts) ==
                 IF SkippedLine(line) THEN LinkRows(blines, line_nums, k + 1, m, links)
                 ELSE IF Len(parts) < 5
                 THEN LinkRows(blines, line_nums, k + 1, Logged(line, "too few fields"), links)
                 ELSE IF \/ ~IntOk(parts[1]) \/ ~IntOk(parts[2]) \/ ~IntOk(parts[3])
                         \/ (Strip(parts[5]) # <<>> /\ ~FloatOk(parts[5]))
                 THEN LinkRows(blines, line_nums, k + 1, Logged(line, "ValueError"), links)
                 ELSE Typed(parts, Upper(Strip(parts[4])))
             Fields(line) == Row(line, SplitComma(line))
         IN  Fields(PreprocessLine(blines[k]))

parse_elasticlink(blines, line_nums, m) == LinkRows(blines, line_nums, 1, m, <<>>)

(***************************************************************************)
(* NodeElementParser.parse_group (src/parsers/node_element_parsers.py      *)
(* 196-274)                                                                *)
(***************************************************************************)

\* one token of a NODE= or ELEM= value (node_element_parsers.py 232-248):
\* the ids it adds, or raised when int() fails on it
GroupToken(tok) ==
    LET Ranged(range_parts) ==
            IF IntOk(range_parts[1]) /\ IntOk(range_parts[2])
            THEN Returned(PyRange(IntVal(range_parts[1]), IntVal(range_parts[2]) + 1, 1))
            ELSE Raised("ValueError")
    IN  IF Contains(tok, <<"-">>) THEN Ranged(SplitOn(tok, <<"-">>))
        ELSE IF IntOk(tok) THEN Returned(<<IntVal(tok)>>)
        ELSE Raised("ValueError")

\* the loop over the tokens of one line: the ids added to the list and the
\* errors logged with the line's number
RECURSIVE GroupTokens(_, _, _, _)
GroupTokens(toks, line_num, ids, m) ==
    IF toks = <<>> THEN [ids |-> ids, model |-> m]
    ELSE LET Taken(r) ==
                 IF r.raised
                 THEN GroupTokens(Tail(toks), line_num, ids,
                          AddError(m, LogEntry("parse_group", Head(toks), line_num,
                                               "ValueError")))
                 ELSE GroupTokens(Tail(toks), line_num, ids \o r.value, m)
         IN  Taken(GroupToken(Head(toks)))

\* the loop of parse_group from position k on (node_element_parsers.py
\* 206-274); current_group is <<>> for None, <<name>> for the group of that
\* name in groups
RECURSIVE GroupRows(_, _, _, _, _, _)
GroupRows(blines, line_nums, k, m, groups, current_group) ==
    IF k > Len(blines)
    THEN DecReturn(IF groups # <<>>
                   THEN add_command(m, "GROUP",
                            [groups |-> groups, raw_lines |-> blines,
                             line_nums |-> line_nums])
                   ELSE m)
    ELSE LET Nodes(g, r) ==
                 GroupRows(blines, line_nums, k + 1, r.model,
                           DictSet(groups, g.name, [g EXCEPT !.nodes = r.ids]),
                           current_group)
             Elements(g, r) ==
                 GroupRows(blines, line_nums, k + 1, r.model,
                           DictSet(groups, g.name, [g EXCEPT !.elements = r.ids]),
                           current_group)
             Value(line) == SplitWS(Strip(SplitOnce(line, <<"=">>)[2]))
             Named(group_name) ==
                 GroupRows(blines, line_nums, k + 1, m,
                           DictSet(groups, group_name,
                                   [name |-> group_name, nodes |-> <<>>, elements |-> <<>>]),
                           <<group_name>>)
             Row(line) ==
                 IF SkippedLine(line)
                 THEN GroupRows(blines, line_nums, k + 1, m, groups, current_group)
                 ELSE IF StartsWith(line, <<"N", "A", "M", "E", "=">>)
                 THEN Named(Strip(SplitOnce(line, <<"=">>)[2]))
                 ELSE IF StartsWith(line, <<"N", "O", "D", "E", "=">>) /\ current_group # <<>>
                 THEN Nodes(DictGet(groups, current_group[1]),
                            GroupTokens(Value(line), line_nums[k],
                                        DictGet(groups, current_group[1]).nodes, m))
                 ELSE IF StartsWith(line, <<"E", "L", "E", "M", "=">>) /\ current_group # <<>>
                 THEN Elements(DictGet(groups, current_group[1]),
                               GroupTokens(Value(line), line_nums[k],
                                           DictGet(groups, current_group[1]).elements, m))
                 ELSE GroupRows(blines, line_nums, k + 1, m, groups, current_group)
         IN  Row(PreprocessLine(blines[k]))

parse_group(blines, line_nums, m) == GroupRows(blines, line_nums, 1, m, <<>>, <<>>)

(***************************************************************************)
(* Decoders whose body is `pass`: the block is read and nothing is stored  *)
(* or logged (node_element_parsers.py 100-109, material_parsers.py         *)
(* 175-195, analysis_parsers.py 144-153, hydration_parsers.py 22-53)       *)
(***************************************************************************)

parse_gridline(blines, line_nums, m) == DecReturn(m)

parse_rebar_matl_code(blines, line_nums, m) == DecReturn(m)

parse_tdm_func(blines, line_nums, m) == DecReturn(m)

parse_move_ctrl(blines, line_nums, m) == DecReturn(m)

parse_hyd_stage(blines, line_nums, m) == DecReturn(m)

parse_hyd_ctrl(blines, line_nums, m) == DecReturn(m)

parse_hyd_heatsrc(blines, line_nums, m) == DecReturn(m)

(***************************************************************************)
(* parse_text: splitter and dispatcher (src/parser.py 193-316)             *)
(***************************************************************************)

\* keys of command_parsers that are plain strings: the registry is keyed by
\* MCTCommand members only (parser.py 82-160)
StringParserKeys == {}

\* the decoder registered under a name, applied to a block
Decode(name, blines, line_nums, m) ==
    CASE name = "parse_version" -> parse_version(blines, line_nums, m)
      [] name = "parse_structype" -> parse_structype(blines, line_nums, m)
      [] name = "parse_bstemper" -> parse_bstemper(blines, line_nums, m)
      [] name = "parse_ts_group" -> parse_ts_group(blines, line_nums, m)
      [] name = "parse_section" -> parse_section(blines, line_nums, m)
      [] name = "parse_material" -> parse_material(blines, line_nums, m)
      [] name = "parse_node" -> parse_node(blines, line_nums, m)
      [] name = "parse_element" -> parse_element(blines, line_nums, m)
      [] name = "parse_constraint" -> parse_constraint(blines, line_nums, m)
      [] name = "parse_spring" -> parse_spring(blines, line_nums, m)
      [] name = "parse_beamload" -> parse_beamload(blines, line_nums, m)
      [] name = "parse_prestress" -> parse_prestress(blines, line_nums, m)
      [] name = "parse_sect_pscvalue" -> parse_sect_pscvalue(blines, line_nums, m)
      [] name = "parse_load_seq" -> parse_load_seq(blines, line_nums, m)
      [] name = "parse_elasticlink" -> parse_elasticlink(blines, line_nums, m)
      [] name = "parse_group" -> parse_group(blines, line_nums, m)
      [] name = "parse_gridline" -> parse_gridline(blines, line_nums, m)
      [] name = "parse_rebar_matl_code" -> parse_rebar_matl_code(blines, line_nums, m)
      [] name = "parse_tdm_func" -> parse_tdm_func(blines, line_nums, m)
      [] name = "parse_move_ctrl" -> parse_move_ctrl(blines, line_nums, m)
      [] name = "parse_hyd_stage" -> parse_hyd_stage(blines, line_nums, m)
      [] name = "parse_hyd_ctrl" -> parse_hyd_ctrl(blines, line_nums, m)
      [] name = "parse_hyd_heatsrc" -> parse_hyd_heatsrc(blines, line_nums, m)

\* the caller appends one more line to the document
AddLine(l) ==
    /\ pc = "idle"
    /\ Len(text) < MaxLines
    /\ text' = Append(text, l)
    /\ UNCHANGED <<pc, lines, model, command_blocks, current_cmd, cmd_lines,
                   cmd_line_nums, i, blk, calls, exc, idxVars, bstVars, decVars, prior, added, preVars, pydantic, scanVars>>

\* mutant: parse_text goes on with the Result Model of the parse before
ModelAtEntry_Kept(m) == m

\* self.model = MCTModel() (parser.py 207)
ModelAtEntry(m) == NewMCTModel

\* parse_text entry (parser.py 204-207) and the locals of
\* _split_command_blocks (parser.py 283-286)
ParseText ==
    /\ pc = "idle"
    /\ lines' = text
    /\ model' = ModelAtEntry(model)
    /\ command_blocks' = <<>>
    /\ current_cmd' = <<>>
    /\ cmd_lines' = <<>>
    /\ cmd_line_nums' = <<>>
    /\ i' = 0
    /\ pc' = "split"
    /\ UNCHANGED <<text, blk, calls, exc, idxVars, bstVars, decVars, prior, added, preVars, pydantic, scanVars>>

BlockValue(ls, ns) == [lines |-> ls, line_nums |-> ns]

\* mutant: the 0-based index is used as the line number
LineNumOf_ZeroBased(idx) == idx

\* line_num = i + 1 for the 0-based enumerate index (parser.py 289)
LineNumOf(idx) == idx + 1

\* one iteration of the loop of _split_command_blocks (parser.py 288-310)
SplitLine ==
    /\ pc = "split"
    /\ i < Len(lines)
    /\ LET line_num == LineNumOf(i)
           line == PreprocessLine(lines[i + 1])
           isStart == StartsWith(line, <<"*">>)
           cmd_parts == SplitWS(Tail(line))
       IN  IF line = <<>>
           THEN /\ i' = i + 1
                /\ UNCHANGED <<pc, command_blocks, current_cmd, cmd_lines,
                               cmd_line_nums, exc>>
           ELSE IF isStart /\ cmd_parts = <<>>
           THEN \* cmd_parts[0] on an empty list: IndexError leaves parse_text
                /\ pc' = "raised"
                /\ exc' = "IndexError"
                /\ UNCHANGED <<i, command_blocks, current_cmd, cmd_lines,
                               cmd_line_nums>>
           ELSE LET saved == IF isStart /\ current_cmd # <<>>
                             THEN DictSet(command_blocks, current_cmd,
                                          BlockValue(cmd_lines, cmd_line_nums))
                             ELSE command_blocks
                    cmd == IF isStart THEN cmd_parts[1] ELSE current_cmd
                    ls == IF isStart THEN <<>> ELSE cmd_lines
                    ns == IF isStart THEN <<>> ELSE cmd_line_nums
                IN  /\ command_blocks' = saved
                    /\ current_cmd' = cmd
                    /\ cmd_lines' = IF cmd # <<>> THEN Append(ls, line) ELSE ls
                    /\ cmd_line_nums' = IF cmd # <<>> THEN Append(ns, line_num) ELSE ns
                    /\ i' = i + 1
                    /\ UNCHANGED <<pc, exc>>
    /\ UNCHANGED <<text, lines, model, blk, calls, idxVars, bstVars, decVars, prior, added, preVars, pydantic, scanVars>>

\* end of _split_command_blocks (parser.py 312-316) and start of the
\* dispatch loop (parser.py 213)
SplitFinish ==
    /\ pc = "split"
    /\ i = Len(lines)
    /\ command_blocks' =
          IF current_cmd # <<>> /\ cmd_lines # <<>>
          THEN DictSet(command_blocks, current_cmd, BlockValue(cmd_lines, cmd_line_nums))
          ELSE command_blocks
    /\ blk' = 1
    /\ calls' = <<>>
    /\ pc' = "dispatch"
    /\ UNCHANGED <<text, lines, model, current_cmd, cmd_lines, cmd_line_nums, i,
                   exc, idxVars, bstVars, decVars, prior, added, preVars, pydantic, scanVars>>

\* mutant: the keyword string itself is looked up among the registry keys,
\* which are MCTCommand members
IsRegistered_StringLookup(cmd_name) == cmd_name \in StringParserKeys

\* the lookup of parser.py 215-222 and 231: the keyword is the value of an
\* MCTCommand member that is a key of command_parsers, or is itself a key
IsRegistered(cmd_name) ==
    \/ cmd_name \in MCTCommandValues /\ cmd_name \in DOMAIN command_parsers
    \/ cmd_name \in StringParserKeys

\* mutant: the exception is swallowed without a log entry
CatchDecoderError_Silent(r, cmd_name) == r.model

\* try/except around the decoder call (parser.py 223-229): the model the
\* decoder left, plus one error entry when the decoder raised
CatchDecoderError(r, cmd_name) ==
    IF r.raised THEN AddError(r.model, LogEntry("parse_text", cmd_name, 0, r.msg))
    ELSE r.model

\* one iteration of the dispatch loop (parser.py 213-243)
DispatchBlock ==
    /\ pc = "dispatch"
    /\ blk <= Len(command_blocks)
    /\ LET cmd_name == command_blocks[blk].key
           blines == command_blocks[blk].value.lines
           line_nums == command_blocks[blk].value.line_nums
       IN  IF IsRegistered(cmd_name)
           THEN LET parser == command_parsers[cmd_name]
                    r == Decode(parser, blines, line_nums, model)
                IN  /\ calls' = Append(calls, [cmd |-> cmd_name,
                                               parser |-> parser,
                                               lines |-> blines,
                                               line_nums |-> line_nums])
                    /\ model' = CatchDecoderError(r, cmd_name)
           ELSE /\ model' = [model EXCEPT !.warnings =
                                Append(@, LogEntry("parse_text", cmd_name, 0, "unknown command"))]
                /\ UNCHANGED calls
    /\ blk' = blk + 1
    /\ UNCHANGED <<pc, text, lines, command_blocks, current_cmd, cmd_lines,
                   cmd_line_nums, i, exc, idxVars, bstVars, decVars, prior, added, preVars, pydantic, scanVars>>

\* the loop is over: return self.model (parser.py 256)
ParseReturn ==
    /\ pc = "dispatch"
    /\ blk > Len(command_blocks)
    /\ pc' = "done"
    /\ UNCHANGED <<text, lines, model, command_blocks, current_cmd, cmd_lines,
                   cmd_line_nums, i, blk, calls, exc, idxVars, bstVars, decVars, prior, added, preVars, pydantic, scanVars>>

Init ==
    ParserInit /\ model = NewMCTModel /\ IdxIdle /\ BstIdle /\ DecIdle /\ PreIdle /\ ScanIdle /\ OneBuild

Next ==
    \/ \E l \in RawLines : AddLine(l)
    \/ ParseText
    \/ SplitLine
    \/ SplitFinish
    \/ DispatchBlock
    \/ ParseReturn

Spec == Init /\ [][Next]_vars

(***************************************************************************)
(* The block structure of a document, stated on the document itself        *)
(***************************************************************************)

\* the preprocessed k-th line of the document (1-based)
PP(k) == PreprocessLine(lines[k])

\* line numbers of the block-start lines
Starts == {k \in 1..Len(lines) : PP(k) # <<>> /\ Head(PP(k)) = "*"}

\* keyword of the block started at line k
KeywordAt(k) == Head(SplitWS(Tail(PP(k))))

Keywords == {KeywordAt(k) : k \in Starts}

MinOf(S) == CHOOSE k \in S : \A m \in S : k <= m
MaxOf(S) == CHOOSE k \in S : \A m \in S : k >= m

FirstStart(kw) == MinOf({k \in Starts : KeywordAt(k) = kw})
LastStart(kw) == MaxOf({k \in Starts : KeywordAt(k) = kw})

\* last line belonging to the block started at line k
BlockEnd(k) ==
    IF \E j \in Starts : j > k THEN MinOf({j \in Starts : j > k}) - 1 ELSE Len(lines)

RECURSIVE Ascending(_)
Ascending(S) == IF S = {} THEN <<>> ELSE <<MinOf(S)>> \o Ascending(S \ {MinOf(S)})

\* line numbers of the non-empty lines of the block started at line k
BlockNums(k) == Ascending({j \in k..BlockEnd(k) : PP(j) # <<>>})

BlockText(k) == [n \in 1..Len(BlockNums(k)) |-> PP(BlockNums(k)[n])]

\* the splitter has returned
SplitDone == pc \in {"dispatch", "done"}

Range(f) == {f[n] : n \in DOMAIN f}

\* number of entries of a log that name keyword kw and were written by src
CountLog(log, src, kw) ==
    Cardinality({n \in 1..Len(log) : log[n].src = src /\ log[n].cmd = kw})

CountCalls(kw) == Cardinality({n \in 1..Len(calls) : calls[n].cmd = kw})

\* outcome of the decoder invocation c, taken alone
CallOutcome(c) == Decode(c.parser, c.lines, c.line_nums, NewMCTModel)

\* keyword of the block a log entry belongs to
OwnerKeyword(e) ==
    IF e.src = "parse_text" THEN e.cmd
    ELSE CHOOSE k \in DOMAIN command_parsers : command_parsers[k] = e.src

(***************************************************************************)
(* Claims on the splitter and the dispatcher                               *)
(***************************************************************************)

\* C1: when a decoder raises while decoding a block, the dispatcher catches
\* the exception, the error log gets exactly one dispatcher entry naming the
\* block's keyword and the exception message, every remaining block is
\* still dispatched, and the returned model holds the records of the blocks
\* that did not raise.
C1_DecoderExceptionIsolated ==
    SplitDone =>
        /\ exc = ""
        /\ \A n \in 1..Len(calls) :
              LET c == calls[n]
                  out == CallOutcome(c)
              IN  /\ CountLog(model.errors, "parse_text", c.cmd) = IF out.raised THEN 1 ELSE 0
                  /\ out.raised =>
                        LogEntry("parse_text", c.cmd, 0, out.msg) \in Range(model.errors)
                  /\ ~out.raised =>
                        \A e \in Range(out.model.commands) : e \in Range(model.commands)
        /\ pc = "done" =>
              \A n \in 1..Len(command_blocks) :
                  command_blocks[n].key \in MCTCommandValues
                      => CountCalls(command_blocks[n].key) = 1

\* C1 witness: a parse has returned in which a decoder raised and a block
\* dispatched after it left its record in the model
C1_Witness ==
    /\ pc = "done"
    /\ \E a, b \in 1..Len(calls) :
          /\ a < b
          /\ CallOutcome(calls[a]).raised
          /\ ~CallOutcome(calls[b]).raised
          /\ CallOutcome(calls[b]).model.commands # <<>>
          /\ Len(model.commands) >= 1

\* C2 (as claimed): no input makes parse_text raise to the caller
C2_ParseNeverRaises == pc # "raised"

\* C3: a block whose keyword is not one of the MCTCommand values gets one
\* warning naming the keyword, no decoder call, no error and no record; a
\* block with a recognized keyword gets exactly one call of the decoder
\* registered for it and no warning.
C3_UnknownWarnsKnownDecodes ==
    /\ [](SplitDone =>
            \A n \in 1..Len(command_blocks) :
                LET kw == command_blocks[n].key
                IN  IF n >= blk
                    THEN CountCalls(kw) = 0 /\ CountLog(model.warnings, "parse_text", kw) = 0
                    ELSE IF kw \in MCTCommandValues
                    THEN /\ CountCalls(kw) = 1
                         /\ \A c \in Range(calls) :
                               c.cmd = kw => c.parser = command_parsers[kw]
                         /\ CountLog(model.warnings, "parse_text", kw) = 0
                    ELSE /\ CountCalls(kw) = 0
                         /\ CountLog(model.warnings, "parse_text", kw) = 1
                         /\ CountLog(model.errors, "parse_text", kw) = 0)
    /\ [][(pc = "dispatch" /\ blk' = blk + 1
             /\ command_blocks[blk].key \notin MCTCommandValues)
            => /\ model'.commands = model.commands
               /\ model'.errors = model.errors
               /\ Len(model'.warnings) = Len(model.warnings) + 1
               /\ calls' = calls]_vars
    /\ [][(pc = "dispatch" /\ blk' = blk + 1
             /\ command_blocks[blk].key \in MCTCommandValues)
            => /\ model'.warnings = model.warnings
               /\ Len(calls') = Len(calls) + 1]_vars

\* C3 witness: a parse has returned that dispatched an unknown keyword
\* differing from a recognized one only in case, and a recognized keyword
C3_Witness ==
    /\ pc = "done"
    /\ \E n \in 1..Len(command_blocks) :
          /\ command_blocks[n].key \notin MCTCommandValues
          /\ Upper(command_blocks[n].key) \in MCTCommandValues
    /\ \E n \in 1..Len(command_blocks) : command_blocks[n].key \in MCTCommandValues
    /\ model.warnings # <<>>
    /\ calls # <<>>

\* C4: when a keyword starts several blocks, the splitter output holds under
\* that keyword exactly the lines of the last such block; no line of an
\* earlier block with that keyword is retained or handed to a decoder.
C4_LastBlockWins ==
    SplitDone =>
        /\ \A n \in 1..Len(command_blocks) :
              LET kw == command_blocks[n].key
                  b == command_blocks[n].value
              IN  /\ b.line_nums = BlockNums(LastStart(kw))
                  /\ b.lines = BlockText(LastStart(kw))
        /\ \A k \in Starts :
              k # LastStart(KeywordAt(k)) =>
                  \A j \in Range(BlockNums(k)) :
                      /\ \A n \in 1..Len(command_blocks) :
                            j \notin Range(command_blocks[n].value.line_nums)
                      /\ \A c \in Range(calls) : j \notin Range(c.line_nums)

\* C4 witness: a returned parse of a document in which a keyword starts two
\* blocks separated by another command, the earlier one with a body row
C4_Witness ==
    /\ pc = "done"
    /\ \E k1, k2, k3 \in Starts :
          /\ k1 < k2 /\ k2 < k3
          /\ KeywordAt(k1) = KeywordAt(k3)
          /\ KeywordAt(k2) # KeywordAt(k1)
          /\ Len(BlockNums(k1)) >= 2
          /\ CountCalls(KeywordAt(k1)) = 1

\* C5: every block of the splitter output is exactly the run of non-empty
\* preprocessed lines from a block-start line (at index 0) up to the next
\* block-start line or the end of input, in document order, each paired
\* with its 1-based line number; the two lists have equal length; blank and
\* comment-only lines and lines before the first block start are in no
\* block.
C5_BlocksAreLineRuns ==
    /\ Len(cmd_lines) = Len(cmd_line_nums)
    /\ SplitDone =>
          /\ DictKeys(command_blocks) = Keywords
          /\ \A n \in 1..Len(command_blocks) :
                LET kw == command_blocks[n].key
                    b == command_blocks[n].value
                IN  /\ Len(b.lines) = Len(b.line_nums)
                    /\ \E k \in Starts :
                          /\ KeywordAt(k) = kw
                          /\ b.line_nums = BlockNums(k)
                          /\ b.lines = BlockText(k)
                    /\ \A j \in Range(b.line_nums) :
                          /\ j \in 1..Len(lines)
                          /\ PP(j) # <<>>
                          /\ j >= MinOf(Starts)

\* C5 witness: the splitter returned a block with body rows from a document
\* that has a line before the first block start and a blank or comment-only
\* line inside the block
C5_Witness ==
    /\ SplitDone
    /\ Starts # {}
    /\ MinOf(Starts) > 1
    /\ PP(1) # <<>>
    /\ \E n \in 1..Len(command_blocks) :
          LET ns == command_blocks[n].value.line_nums
          IN  /\ Len(ns) >= 2
              /\ ns[Len(ns)] - ns[1] >= Len(ns)

\* C6: blocks are dispatched one after the other in the order in which
\* their keywords first appear in the document, so the calls and the log
\* entries of an earlier-appearing keyword precede those of a later one; a
\* keyword that starts a block again keeps its first position and is decoded
\* with the lines of its last block.
C6_FirstAppearanceOrder ==
    SplitDone =>
        /\ \A a, b \in 1..Len(command_blocks) :
              a < b => FirstStart(command_blocks[a].key) < FirstStart(command_blocks[b].key)
        /\ \A a, b \in 1..Len(calls) :
              a < b => FirstStart(calls[a].cmd) < FirstStart(calls[b].cmd)
        /\ \A a, b \in 1..Len(model.warnings) :
              a < b => FirstStart(OwnerKeyword(model.warnings[a]))
                           < FirstStart(OwnerKeyword(model.warnings[b]))
        /\ \A a, b \in 1..Len(model.errors) :
              a < b => FirstStart(OwnerKeyword(model.errors[a]))
                           <= FirstStart(OwnerKeyword(model.errors[b]))
        /\ \A c \in Range(calls) : c.lines = BlockText(LastStart(c.cmd))
        /\ Len(calls) + Len(model.warnings) = blk - 1

\* C6 witness: a returned parse in which a keyword that appears first starts
\* a block again after another keyword, and both left error entries
C6_Witness ==
    /\ pc = "done"
    /\ Len(model.errors) >= 2
    /\ \E kw, kw2 \in Keywords :
          /\ FirstStart(kw) < FirstStart(kw2)
          /\ FirstStart(kw2) < LastStart(kw)
          /\ OwnerKeyword(model.errors[1]) = kw
          /\ OwnerKeyword(model.errors[Len(model.errors)]) = kw2

(***************************************************************************)
(* _parse_index_list under test: the argument is assembled from tokens,    *)
(* then the function is applied                                            *)
(***************************************************************************)

\* largest integer written in a generated token
MaxIdx == 3

\* most tokens in a multi-token argument
MaxTokens == 3

\* decimal text of an integer
IntToStr(n) == IF n < 0 THEN <<"-">> \o NatToStr(0 - n) ELSE NatToStr(n)

\* a piece of a token: its text, and the integer it denotes if it is one
IntPiece(n) == [str |-> IntToStr(n), ok |-> TRUE, val |-> n]
BadPiece(s) == [str |-> s, ok |-> FALSE, val |-> 0]

Pieces ==
    {IntPiece(n) : n \in (0 - 1)..MaxIdx}
        \cup {BadPiece(<<>>), BadPiece(<<"a", "b", "c">>), BadPiece(<<"-">>)}

\* tokens: a piece alone, `x to y`, `x to y by z`
PlainTok(x) == [kind |-> "plain", x |-> x, y |-> x, z |-> x]
ToTok(x, y) == [kind |-> "to", x |-> x, y |-> y, z |-> IntPiece(1)]
ToByTok(x, y, z) == [kind |-> "toby", x |-> x, y |-> y, z |-> z]

TokStr(t) ==
    CASE t.kind = "plain" -> t.x.str
      [] t.kind = "to" -> t.x.str \o <<"t", "o">> \o t.y.str
      [] t.kind = "toby" -> t.x.str \o <<"t", "o">> \o t.y.str \o <<"b", "y">> \o t.z.str

Tokens ==
    {PlainTok(x) : x \in Pieces}
        \cup {ToTok(x, y) : x \in Pieces, y \in Pieces}
        \cup {ToByTok(x, y, z) : x \in Pieces, y \in Pieces, z \in Pieces}
        \cup {ToByTok(IntPiece(10), IntPiece(20), IntPiece(5)),
              ToTok(IntPiece(3), IntPiece(6))}

\* tokens of the multi-token arguments
SmallTokens ==
    {PlainTok(IntPiece(1)), PlainTok(IntPiece(2)), PlainTok(BadPiece(<<"a", "b", "c">>)),
     ToTok(IntPiece(1), IntPiece(2)), ToByTok(IntPiece(0), IntPiece(2), IntPiece(2)),
     ToTok(IntPiece(1), BadPiece(<<"a", "b", "c">>))}

IdxInit ==
    /\ idx_pc = "build"
    /\ idx_toks = <<>>
    /\ idx_text = <<>>
    /\ idx_out = Returned(<<>>)

\* the caller starts the argument with whitespace
IdxSpace ==
    /\ idx_pc = "build"
    /\ idx_text = <<>>
    /\ idx_text' = <<" ">>
    /\ UNCHANGED <<idx_pc, idx_toks, idx_out, parseVars, model, bstVars, decVars, prior, added, preVars, pydantic, scanVars>>

\* the caller appends a token, separated by a space from the previous one
IdxAddToken(t) ==
    /\ idx_pc = "build"
    /\ \/ idx_toks = <<>>
       \/ /\ Len(idx_toks) < MaxTokens
          /\ t \in SmallTokens
          /\ \A n \in 1..Len(idx_toks) : idx_toks[n] \in SmallTokens
    /\ idx_toks' = Append(idx_toks, t)
    /\ idx_text' = IF idx_toks = <<>> THEN idx_text \o TokStr(t)
                   ELSE idx_text \o <<" ">> \o TokStr(t)
    /\ UNCHANGED <<idx_pc, idx_out, parseVars, model, bstVars, decVars, prior, added, preVars, pydantic, scanVars>>

\* the call _parse_index_list(text)
IdxParse ==
    /\ idx_pc = "build"
    /\ idx_out' = ParseIndexList(idx_text)
    /\ idx_pc' = "done"
    /\ UNCHANGED <<idx_toks, idx_text, parseVars, model, bstVars, decVars, prior, added, preVars, pydantic, scanVars>>

InitIndex ==
    ParserInit /\ model = NewMCTModel /\ IdxInit /\ BstIdle /\ DecIdle /\ PreIdle /\ ScanIdle /\ OneBuild

NextIndex ==
    \/ IdxSpace
    \/ \E t \in Tokens : IdxAddToken(t)
    \/ IdxParse

SpecIndex == InitIndex /\ [][NextIndex]_vars

\* a token of the forms the index grammar defines: an integer, `a to b`,
\* or `a to b by s` with a <= b and s >= 1
WellFormedTok(t) ==
    CASE t.kind = "plain" -> t.x.ok
      [] t.kind = "to" -> t.x.ok /\ t.y.ok
      [] t.kind = "toby" -> t.x.ok /\ t.y.ok /\ t.z.ok
                              /\ t.x.val <= t.y.val /\ t.z.val >= 1

\* the expansion the grammar gives a well-formed token
Expansion(t) ==
    CASE t.kind = "plain" -> <<t.x.val>>
      [] t.kind = "to" -> [k \in 1..(t.y.val - t.x.val + 1) |-> t.x.val + k - 1]
      [] t.kind = "toby" ->
            [k \in 1..((t.y.val - t.x.val) \div t.z.val + 1) |-> t.x.val + (k - 1) * t.z.val]

RECURSIVE ConcatExpansions(_)
ConcatExpansions(toks) ==
    IF toks = <<>> THEN <<>> ELSE Expansion(Head(toks)) \o ConcatExpansions(Tail(toks))

\* C7 (as claimed): _parse_index_list raises for no input string; tokens
\* that are neither integers nor well-formed ranges are ignored
C7_IndexListNeverRaises ==
    idx_pc = "done" =>
        /\ ~idx_out.raised
        /\ idx_out.value = ConcatExpansions(SelectSeq(idx_toks, WellFormedTok))

\* C8: for well-formed tokens the result is the concatenation, in token
\* order and with duplicates, of the tokens' expansions: a, a+s, a+2s, ...
\* up to the largest value not above b for `a to b by s` (a <= b, s >= 1),
\* a, a+1, ..., b for `a to b`, and the integer itself for a plain integer
C8_RangeExpansion ==
    (idx_pc = "done" /\ \A n \in 1..Len(idx_toks) : WellFormedTok(idx_toks[n])) =>
        /\ ~idx_out.raised
        /\ idx_out.value = ConcatExpansions(idx_toks)

\* C8 witness: `10to20by5` parsed to [10, 15, 20], or a multi-token
\* argument of ranges parsed to a list in which a value occurs twice
C8_Witness ==
    /\ idx_pc = "done"
    /\ \A n \in 1..Len(idx_toks) : WellFormedTok(idx_toks[n])
    /\ \/ /\ idx_toks = <<ToByTok(IntPiece(10), IntPiece(20), IntPiece(5))>>
          /\ idx_out.value = <<10, 15, 20>>
       \/ /\ Len(idx_toks) >= 2
          /\ \E n \in 1..Len(idx_toks) : idx_toks[n].kind = "toby"
          /\ \E a, b \in 1..Len(idx_out.value) : a # b /\ idx_out.value[a] = idx_out.value[b]

(***************************************************************************)
(* parse_bstemper under test: the block is assembled from body rows, then  *)
(* the decoder runs over it one loop iteration at a time                   *)
(***************************************************************************)

\* most body rows of a BSTEMPER block
MaxBstRows == 3

BrHeader1 == <<"2", ",", " ", "L", "Z", ",", " ", "T", "o", "p", ",", " ", "1", ",", " ", "G">>
BrHeader2 == <<"1", ",", "L", "Z", ",", "T", "o", "p", ",", "2", ",", "G", ",", "N", "O">>
BrHeader3 == <<"3", ",", "L", "Z", ",", "T", "o", "p", ",", "3", ",", "G", ",", "y", "e", "s">>
BrHeader0 == <<"4", ",", "L", "Z", ",", "T", "o", "p", ",", "0", ",", "G">>
BrHeaderShort == <<"5", ",", "L", "Z", ",", "T", "o", "p">>
BrHeaderBad == <<"6", ",", "L", "Z", ",", "T", "o", "p", ",", "x", ",", "G">>
BrInput == <<"I", "N", "P", "U", "T", " ", "E", "L", "A", "S", "T", " ", "1", " ", "2", ".", "5", " ", "3", " ", "4", " ", "5", " ", "6">>
BrInputShort == <<"I", "N", "P", "U", "T", " ", "E", "L", "A", "S", "T", " ", "1">>
BrInputBad == <<"I", "N", "P", "U", "T", " ", "E", "L", "A", "S", "T", " ", "a", " ", "2", " ", "3", " ", "4", " ", "5", " ", "6">>
\* an INPUT row in the comma-separated layout of test_bstemper_parser.py 25
BrInputComma == <<"I", "N", "P", "U", "T", ",", " ", "3", ".", "5", "5", "e", "+", "0", "7", ",", " ", "1", "e", "-", "0", "5", ",", " ", "2", "0", ".", "1", ",", " ", "0", ",", " ", "1", "4", ",", " ", "0", ".", "1", ",", " ", "5", ".", "5">>
BrBlank == <<" ", " ">>

BstRows ==
    {BrHeader1, BrHeader2, BrHeader3, BrHeader0, BrHeaderShort, BrHeaderBad,
     BrInput, BrInputShort, BrInputBad, BrInputComma, BrBlank}

\* line numbers handed to the decoder together with bst_lines
BstLineNums == [k \in 1..Len(bst_lines) |-> k]

BstInit ==
    /\ bst_pc = "build"
    /\ bst_lines = <<LnBstemper>>
    /\ bst_i = 0
    /\ current_element_data = NoElement
    /\ temperatures = <<>>

\* the caller appends a body row to the block
BstAddRow(r) ==
    /\ bst_pc = "build"
    /\ Len(bst_lines) <= MaxBstRows
    /\ bst_lines' = Append(bst_lines, r)
    /\ UNCHANGED <<bst_pc, bst_i, current_element_data, temperatures, model,
                   parseVars, idxVars, decVars, prior, added, preVars, pydantic, scanVars>>

\* entry of parse_bstemper (load_parsers.py 181-183)
BstCall ==
    /\ bst_pc = "build"
    /\ bst_pc' = "loop"
    /\ bst_i' = BstStart(model).i
    /\ current_element_data' = BstStart(model).cur
    /\ temperatures' = BstStart(model).temperatures
    /\ UNCHANGED <<bst_lines, model, parseVars, idxVars, decVars, prior, added, preVars, pydantic, scanVars>>

BstLocals ==
    [i |-> bst_i, cur |-> current_element_data, temperatures |-> temperatures,
     model |-> model]

\* one iteration of the while loop (load_parsers.py 185-284)
BstIter ==
    /\ bst_pc = "loop"
    /\ bst_i < Len(bst_lines)
    /\ LET st == BstStep(BstLocals, bst_lines, BstLineNums)
       IN  /\ bst_i' = st.i
           /\ current_element_data' = st.cur
           /\ temperatures' = st.temperatures
           /\ model' = st.model
    /\ UNCHANGED <<bst_pc, bst_lines, parseVars, idxVars, decVars, prior, added, preVars, pydantic, scanVars>>

\* after the loop (load_parsers.py 286-294)
BstEnd ==
    /\ bst_pc = "loop"
    /\ ~(bst_i < Len(bst_lines))
    /\ LET st == BstFinish(BstLocals, bst_lines, BstLineNums)
       IN  /\ temperatures' = st.temperatures
           /\ current_element_data' = st.cur
           /\ model' = st.model
    /\ bst_pc' = "done"
    /\ UNCHANGED <<bst_lines, bst_i, parseVars, idxVars, decVars, prior, added, preVars, pydantic, scanVars>>

InitBst ==
    ParserInit /\ model = NewMCTModel /\ IdxIdle /\ BstInit /\ DecIdle /\ PreIdle /\ ScanIdle /\ OneBuild

NextBst ==
    \/ \E r \in BstRows : BstAddRow(r)
    \/ BstCall
    \/ BstIter
    \/ BstEnd

SpecBst == InitBst /\ [][NextBst]_vars

\* the shortfall entries of the error log
ShortfallErrors == {n \in 1..Len(model.errors) : model.errors[n].msg = "shortfall"}

\* the records emitted for the header row at line h
RecordsOf(h) == {n \in 1..Len(temperatures) : temperatures[n].hdr_line = h}

\* C9 (as claimed): when the block ends with fewer INPUT rows collected
\* than the current header declared, exactly one partial record is emitted
\* for that header and exactly one shortfall error is logged
C9_ShortfallPartialRecord ==
    (/\ bst_pc = "done"
     /\ current_element_data.set
     /\ Len(current_element_data.sections) < current_element_data.num_sections) =>
        /\ Cardinality(RecordsOf(current_element_data.hdr_line)) = 1
        /\ Cardinality(ShortfallErrors) = 1
        /\ "BSTEMPER" \in DictKeys(model.commands)

\* row handled by the loop iteration about to run
BstRow == Strip(bst_lines[bst_i + 1])

\* the iteration about to run collects a valid INPUT row for the current
\* header: the row is an INPUT row, a header is current, no error is logged
CollectsRow ==
    /\ bst_pc = "loop" /\ bst_i < Len(bst_lines) /\ bst_i' = bst_i + 1
    /\ current_element_data.set
    /\ StartsWith(BstRow, INPUT)
    /\ model'.errors = model.errors

\* the iteration about to run handles an INPUT row while no header is current
InputWithoutHeader ==
    /\ bst_pc = "loop" /\ bst_i < Len(bst_lines) /\ bst_i' = bst_i + 1
    /\ ~current_element_data.set
    /\ StartsWith(BstRow, INPUT)

RowLines(rec) == [k \in 1..Len(rec.sections) |-> rec.sections[k].row_line]

ValidHeaders == {BrHeader1, BrHeader2, BrHeader3, BrHeader0}

\* the number n of nested rows a header row declares (its fourth field)
Declared(row) == IntVal(Strip(SplitOn(row, <<",">>)[4]))

\* every header row declares n >= 1 nested rows and is followed by exactly
\* n comma-layout rows
RECURSIVE CommaLayoutBlock(_)
CommaLayoutBlock(rows) ==
    IF rows = <<>> THEN TRUE
    ELSE /\ Head(rows) \in ValidHeaders
         /\ Declared(Head(rows)) >= 1
         /\ Len(rows) - 1 >= Declared(Head(rows))
         /\ \A k \in 1..Declared(Head(rows)) : rows[k + 1] = BrInputComma
         /\ CommaLayoutBlock(SubSeq(rows, Declared(Head(rows)) + 2, Len(rows)))

BstBody == Tail(bst_lines)

HeaderLines == {k \in 2..Len(bst_lines) : bst_lines[k] \in ValidHeaders}

\* C11 (as claimed): a BSTEMPER block in which every header row is followed
\* by exactly n rows in the comma-separated layout decodes with an empty
\* error list into one temperature record per header row, each holding n
\* sections with the numeric values of its rows
C11_CommaLayoutParses ==
    (bst_pc = "done" /\ BstBody # <<>> /\ CommaLayoutBlock(BstBody)) =>
        /\ model.errors = <<>>
        /\ Len(temperatures) = Cardinality(HeaderLines)
        /\ \A n \in 1..Len(temperatures) :
              /\ Len(temperatures[n].sections) = temperatures[n].num_sections
              /\ \A k \in 1..Len(temperatures[n].sections) :
                    /\ temperatures[n].sections[k].thermal = [m |-> 1, e |-> -5]
                    /\ temperatures[n].sections[k].temp2 = [m |-> 55, e |-> -1]

(***************************************************************************)
(* AnalysisParser.parse_eigen_ctrl (src/parsers/analysis_parsers.py 26-74) *)
(***************************************************************************)

\* fields of an EigenCtrl record that take their default when the decoder
\* does not pass them (commands.py 333-335); fields the record does not
\* declare are kept as given (base.py 105, extra = "allow")
EigenCtrlDefaults == [frequency |-> 0, iterations |-> 20, dimension |-> 0]

\* mutant: the short row is reported with the conversion-error message
EigenShortRow_AsValueError(m, num) ==
    AddError(m, LogEntry("parse_eigen_ctrl", <<>>, 0, "ValueError"))

\* fewer than 3 fields: "无效的EIGEN-CTRL命令: 参数不足，行号 N"
\* (analysis_parsers.py 42-44)
EigenShortRow(m, num) ==
    AddError(m, LogEntry("parse_eigen_ctrl", <<>>, num, "insufficient parameters"))

\* the options dict, filled in the order of the code (analysis_parsers.py 52-60)
EigenOptions(parts) ==
    LET o1 == IF Len(parts) > 3 THEN DictSet(<<>>, "method", parts[4]) ELSE <<>>
        o2 == IF Len(parts) > 4 THEN DictSet(o1, "shift", FloatVal(parts[5])) ELSE o1
        o3 == IF Len(parts) > 5 THEN DictSet(o2, "norm", parts[6]) ELSE o2
    IN  IF Len(parts) > 6 THEN DictSet(o3, "imass", IntVal(parts[7])) ELSE o3

\* some conversion inside the try block raises ValueError
\* (analysis_parsers.py 47-60)
EigenValueError(parts) ==
    \/ ~IntOk(parts[1])
    \/ ~IntOk(parts[2])
    \/ ~FloatOk(parts[3])
    \/ Len(parts) > 4 /\ ~FloatOk(parts[5])
    \/ Len(parts) > 6 /\ ~IntOk(parts[7])

parse_eigen_ctrl(blines, line_nums, m) ==
    IF Len(blines) < 2
    THEN DecReturn(AddError(m, LogEntry("parse_eigen_ctrl", <<>>, 0,
                                        "missing control parameters")))
    ELSE LET parts == SplitWS(Strip(blines[2]))
         IN  IF Len(parts) < 3 THEN DecReturn(EigenShortRow(m, line_nums[2]))
             ELSE IF EigenValueError(parts)
             THEN DecReturn(AddError(m, LogEntry("parse_eigen_ctrl", <<>>, 0, "ValueError")))
             ELSE DecReturn(add_command(m, "EIGEN-CTRL",
                     [modes |-> IntVal(parts[1]),
                      max_iterations |-> IntVal(parts[2]),
                      tolerance |-> FloatVal(parts[3]),
                      options |-> EigenOptions(parts),
                      raw_lines |-> blines,
                      line_nums |-> line_nums] @@ EigenCtrlDefaults))

(***************************************************************************)
(* parse_eigen_ctrl under test: the caller assembles the data row token by *)
(* token and calls the decoder on a Result Model that is empty or already  *)
(* holds entries                                                           *)
(***************************************************************************)

\* most tokens of the data row
MaxEigenToks == 7

LnEigenCtrl == <<"*", "E", "I", "G", "E", "N", "-", "C", "T", "R", "L">>

\* the tokens tried at position p of the data row: the token of the sample
\* row `10 100 1.0E-6 LANC 0.0 MASS 0` and one of another type
EigenTokens(p) ==
    CASE p = 1 -> {<<"1", "0">>, <<"x">>}
      [] p = 2 -> {<<"1", "0", "0">>, <<"1", ".", "5">>}
      [] p = 3 -> {<<"1", ".", "0", "E", "-", "6">>, <<"t", "o", "l">>}
      [] p = 4 -> {<<"L", "A", "N", "C">>}
      [] p = 5 -> {<<"0", ".", "0">>, <<"a", "b", "c">>}
      [] p = 6 -> {<<"M", "A", "S", "S">>}
      [] p = 7 -> {<<"0">>, <<"1", ".", "5">>}
      [] OTHER -> {<<"E", "X", "T", "R", "A">>}

\* a Result Model that already holds a record, an error and a warning
UsedModel ==
    [commands |-> <<[key |-> "VERSION",
                     value |-> [version |-> <<"8", ".", "8", ".", "0">>,
                                raw_lines |-> <<LnVersion>>, line_nums |-> <<1>>]]>>,
     errors |-> <<LogEntry("parse_unit", <<>>, 0, "missing unit")>>,
     warnings |-> <<LogEntry("parse_text", <<"F", "O", "O">>, 0, "unknown command")>>]

DecModels == {NewMCTModel, UsedModel}

DecLineNums == [k \in 1..Len(dec_lines) |-> k]

EigInit ==
    /\ dec_pc = "build"
    /\ dec_lines = <<LnEigenCtrl>>
    /\ dec_toks = <<>>

\* the caller appends a token to the data row
EigAddToken(t) ==
    /\ dec_pc = "build"
    /\ Len(dec_toks) < MaxEigenToks
    /\ dec_toks' = Append(dec_toks, t)
    /\ dec_lines' = IF Len(dec_lines) = 1 THEN Append(dec_lines, t)
                    ELSE [dec_lines EXCEPT ![2] = @ \o <<" ">> \o t]
    /\ UNCHANGED <<dec_pc, model, parseVars, idxVars, bstVars, prior, added, preVars, pydantic, scanVars>>

\* parse_eigen_ctrl(lines, line_nums)
EigCall ==
    /\ dec_pc = "build"
    /\ model' = parse_eigen_ctrl(dec_lines, DecLineNums, model).model
    /\ dec_pc' = "done"
    /\ UNCHANGED <<dec_lines, dec_toks, parseVars, idxVars, bstVars, prior, added, preVars, pydantic, scanVars>>

InitEigen ==
    ParserInit /\ model \in DecModels /\ IdxIdle /\ BstIdle /\ EigInit /\ PreIdle /\ ScanIdle /\ OneBuild

NextEigen ==
    \/ \E t \in EigenTokens(Len(dec_toks) + 1) : EigAddToken(t)
    \/ EigCall

SpecEigen == InitEigen /\ [][NextEigen]_vars

\* the option keys for which the data row has a token
EigenKeysPresent ==
    {k \in {"method", "shift", "norm", "imass"} :
        Len(dec_toks) >= (CASE k = "method" -> 4 [] k = "shift" -> 5
                            [] k = "norm" -> 6 [] k = "imass" -> 7)}

\* C12 (as claimed): a data row with at least 3 tokens whose first three
\* are an integer, an integer and a float is stored as an EIGEN-CTRL record
\* holding those three values, with exactly the option keys method, shift,
\* norm, imass for which tokens 4, 5, 6, 7 are present
C12_EigenCtrlRecord ==
    (/\ dec_pc = "done"
     /\ Len(dec_toks) >= 3
     /\ IntOk(dec_toks[1]) /\ IntOk(dec_toks[2]) /\ FloatOk(dec_toks[3])) =>
        /\ "EIGEN-CTRL" \in DictKeys(model.commands)
        /\ LET rec == DictGet(model.commands, "EIGEN-CTRL")
           IN  /\ rec.modes = 10
               /\ rec.max_iterations = 100
               /\ rec.tolerance = [m |-> 1, e |-> -6]
               /\ DictKeys(rec.options) = EigenKeysPresent
               /\ "method" \in EigenKeysPresent =>
                      DictGet(rec.options, "method") = dec_toks[4]
               /\ "norm" \in EigenKeysPresent =>
                      DictGet(rec.options, "norm") = dec_toks[6]

\* the call about to run decodes a block whose data row has fewer than 3
\* tokens
ShortRowCall ==
    /\ dec_pc = "build" /\ dec_pc' = "done"
    /\ Len(dec_lines) = 2
    /\ Len(dec_toks) < 3

\* C13: decoding an EIGEN-CTRL block whose data row has fewer than 3 tokens
\* stores no EIGEN-CTRL record and appends exactly one error entry, which
\* reports insufficient parameters; the records, the earlier errors and the
\* warnings of the Result Model stay as they were
C13_EigenShortRow ==
    [][ShortRowCall =>
         /\ model'.commands = model.commands
         /\ "EIGEN-CTRL" \notin DictKeys(model'.commands)
         /\ model'.warnings = model.warnings
         /\ Len(model'.errors) = Len(model.errors) + 1
         /\ SubSeq(model'.errors, 1, Len(model.errors)) = model.errors
         /\ model'.errors[Len(model'.errors)].msg = "insufficient parameters"
         /\ model'.errors[Len(model'.errors)].line = 2]_vars

\* C13 witness: the row `10 100` was decoded on a Result Model that already
\* held entries: the last error reports insufficient parameters
C13_Witness ==
    /\ dec_pc = "done"
    /\ dec_toks = <<<<"1", "0">>, <<"1", "0", "0">>>>
    /\ model.commands = UsedModel.commands
    /\ Len(model.errors) = 2
    /\ model.errors[2].msg = "insufficient parameters"

(***************************************************************************)
(* AnalysisParser.parse_spec_ctrl (src/parsers/analysis_parsers.py 76-142) *)
(***************************************************************************)

\* fields of a SpecCtrl record that take their default (commands.py 341-343)
SpecCtrlDefaults == [type |-> <<"S", "R", "S", "S">>, damping |-> [m |-> 5, e |-> -2],
                     add_sign |-> FALSE]

\* the options dict (analysis_parsers.py 101-112)
SpecOptions(parts) ==
    LET o1 == IF Len(parts) > 3 THEN DictSet(<<>>, "damp_type", parts[4]) ELSE <<>>
        o2 == IF Len(parts) > 4 THEN DictSet(o1, "damp_ratio", FloatVal(parts[5])) ELSE o1
        o3 == IF Len(parts) > 5 THEN DictSet(o2, "missing_mass", parts[6]) ELSE o2
        o4 == IF Len(parts) > 6 THEN DictSet(o3, "cutoff_mode", IntVal(parts[7])) ELSE o3
    IN  IF Len(parts) > 7 THEN DictSet(o4, "cutoff_period", FloatVal(parts[8])) ELSE o4

\* some conversion of the control row raises ValueError
\* (analysis_parsers.py 97-112)
SpecValueError(parts) ==
    \/ ~IntOk(parts[2])
    \/ Len(parts) > 4 /\ ~FloatOk(parts[5])
    \/ Len(parts) > 6 /\ ~IntOk(parts[7])
    \/ Len(parts) > 7 /\ ~FloatOk(parts[8])

\* the floats of one direction-factor line; tokens that are not floats are
\* ignored (analysis_parsers.py 118-124)
FactorsOf(line) ==
    LET factor_parts == SplitWS(Strip(line))
        ok == SelectSeq(factor_parts, FloatOk)
    IN  [k \in 1..Len(ok) |-> FloatVal(ok[k])]

\* mutant: every line after the control row is read
FactorLines_All(blines) == 3..Len(blines)

\* the lines read for direction factors: for i in range(2, min(len(lines), 5))
\* (analysis_parsers.py 116), as 1-based positions
FactorLines(blines) == {k + 1 : k \in Range(PyRange(2, IF Len(blines) < 5 THEN Len(blines) ELSE 5, 1))}

\* direction_factors after the lines up to position k have been read
\* (analysis_parsers.py 115-127)
RECURSIVE DirectionFactors(_, _)
DirectionFactors(blines, k) ==
    IF k < 3 THEN <<>>
    ELSE LET before == DirectionFactors(blines, k - 1)
             line == Strip(blines[k])
         IN  IF k \in FactorLines(blines) /\ line # <<>> /\ ~StartsWith(line, <<"*">>)
                /\ FactorsOf(blines[k]) # <<>>
             THEN Append(before, FactorsOf(blines[k]))
             ELSE before

parse_spec_ctrl(blines, line_nums, m) ==
    IF Len(blines) < 2
    THEN DecReturn(AddError(m, LogEntry("parse_spec_ctrl", <<>>, 0,
                                        "missing control parameters")))
    ELSE LET parts == SplitWS(Strip(blines[2]))
         IN  IF Len(parts) < 3
             THEN DecReturn(AddError(m, LogEntry("parse_spec_ctrl", <<>>, line_nums[2],
                                                 "insufficient parameters")))
             ELSE IF SpecValueError(parts)
             THEN DecReturn(AddError(m, LogEntry("parse_spec_ctrl", <<>>, 0, "ValueError")))
             ELSE DecReturn(add_command(m, "SPEC-CTRL",
                     [spec_type |-> parts[1],
                      case_id |-> IntVal(parts[2]),
                      comb_method |-> parts[3],
                      options |-> SpecOptions(parts),
                      direction_factors |-> DirectionFactors(blines, Len(blines)),
                      raw_lines |-> blines,
                      line_nums |-> line_nums] @@ SpecCtrlDefaults))

(***************************************************************************)
(* parse_spec_ctrl under test: the caller assembles the block row by row   *)
(***************************************************************************)

\* most body rows of a SPEC-CTRL block
MaxSpecRows == 5

LnSpecCtrl == <<"*", "S", "P", "E", "C", "-", "C", "T", "R", "L">>

SrControlFull == <<"A", "B", "S", " ", "1", " ", "C", "Q", "C", " ", "D", "A", "M", "P", " ", "0", ".", "0", "5", " ", "Y", "E", "S", " ", "3", "0", " ", "0", ".", "0", "1">>
SrControlMin == <<"A", "B", "S", " ", "1", " ", "C", "Q", "C">>
SrControlBad == <<"A", "B", "S", " ", "x", " ", "C", "Q", "C">>
SrControlShort == <<"A", "B", "S", " ", "1">>
SrFactorX == <<"1", ".", "0", " ", "0", ".", "0", " ", "0", ".", "0">>
SrFactorY == <<"0", ".", "0", " ", "1", ".", "0", " ", "0", ".", "0">>
SrFactorZ == <<"0", ".", "0", " ", "0", ".", "0", " ", "1", ".", "0">>
SrFactorMixed == <<"2", ".", "5", " ", "a", "b", "c", " ", "0", ".", "5">>
SrFactorNone == <<"a", "b", "c">>

\* the rows tried at body position p: a control row first, then
\* direction-factor rows
SpecRows(p) ==
    IF p = 1 THEN {SrControlFull, SrControlMin, SrControlBad, SrControlShort}
    ELSE {SrFactorX, SrFactorY, SrFactorZ, SrFactorMixed, SrFactorNone}

SpcInit ==
    /\ dec_pc = "build"
    /\ dec_lines = <<LnSpecCtrl>>
    /\ dec_toks = <<>>

\* the caller appends a body row to the block
SpcAddRow(r) ==
    /\ dec_pc = "build"
    /\ Len(dec_lines) <= MaxSpecRows
    /\ dec_lines' = Append(dec_lines, r)
    /\ UNCHANGED <<dec_pc, dec_toks, model, parseVars, idxVars, bstVars, prior, added, preVars, pydantic, scanVars>>

\* parse_spec_ctrl(lines, line_nums)
SpcCall ==
    /\ dec_pc = "build"
    /\ model' = parse_spec_ctrl(dec_lines, DecLineNums, model).model
    /\ dec_pc' = "done"
    /\ UNCHANGED <<dec_lines, dec_toks, parseVars, idxVars, bstVars, prior, added, preVars, pydantic, scanVars>>

InitSpecCtrl ==
    ParserInit /\ model = NewMCTModel /\ IdxIdle /\ BstIdle /\ SpcInit /\ PreIdle /\ ScanIdle /\ OneBuild

NextSpecCtrl ==
    \/ \E r \in SpecRows(Len(dec_lines)) : SpcAddRow(r)
    \/ SpcCall

SpecSpecCtrl == InitSpecCtrl /\ [][NextSpecCtrl]_vars

\* the three floats written on a direction-factor row of three numeric tokens
UnitRowValues(r) ==
    LET one == [m |-> 1, e |-> 0]
        zero == [m |-> 0, e |-> 0]
    IN  CASE r = SrFactorX -> <<one, zero, zero>>
          [] r = SrFactorY -> <<zero, one, zero>>
          [] r = SrFactorZ -> <<zero, zero, one>>

UnitRows == {SrFactorX, SrFactorY, SrFactorZ}

\* C14: a SPEC-CTRL block with a valid control row followed by three
\* direction-factor rows of three numeric tokens each is decoded into a
\* record with exactly 3 direction-factor rows of 3 floats, equal to the
\* input values in input order; the direction factors of any stored record
\* are those of the block cut after the three lines that follow the control
\* row
C14_DirectionFactors ==
    /\ (/\ dec_pc = "done"
        /\ Len(dec_lines) >= 5
        /\ dec_lines[2] \in {SrControlFull, SrControlMin}
        /\ \A k \in 3..5 : dec_lines[k] \in UnitRows) =>
           /\ "SPEC-CTRL" \in DictKeys(model.commands)
           /\ DictGet(model.commands, "SPEC-CTRL").direction_factors
                 = [k \in 1..3 |-> UnitRowValues(dec_lines[k + 2])]
    /\ (dec_pc = "done" /\ "SPEC-CTRL" \in DictKeys(model.commands)) =>
           LET cut == SubSeq(dec_lines, 1, IF Len(dec_lines) < 5 THEN Len(dec_lines) ELSE 5)
               rec == DictGet(model.commands, "SPEC-CTRL")
           IN  /\ Len(rec.direction_factors) <= 3
               /\ rec.direction_factors
                     = DictGet(parse_spec_ctrl(cut, [k \in 1..Len(cut) |-> k],
                                               NewMCTModel).model.commands,
                               "SPEC-CTRL").direction_factors

\* C14 witness: the sample block followed by one more numeric row was
\* decoded: the record holds the three rows after the control row
C14_Witness ==
    /\ dec_pc = "done"
    /\ dec_lines = <<LnSpecCtrl, SrControlFull, SrFactorX, SrFactorY, SrFactorZ, SrFactorY>>
    /\ "SPEC-CTRL" \in DictKeys(model.commands)
    /\ Len(DictGet(model.commands, "SPEC-CTRL").direction_factors) = 3

(***************************************************************************)
(* parse_ts_group under test: the caller assembles the block row by row    *)
(* and calls the decoder on the Result Model of a parse that reached the   *)
(* TS-GROUP block                                                          *)
(***************************************************************************)

\* most body rows of a TS-GROUP block
MaxTsRows == 3

LnTsGroup == <<"*", "T", "S", "-", "G", "R", "O", "U", "P">>

TsRowPlain == <<"G", "1", ",", " ", "1", "t", "o", "3", ",", " ", "L", "I", "N", "E", "A", "R", ",", " ", ",", " ", ",", " ", ",", " ", "L", "I", "N", "E", "A", "R">>
TsRowFull == <<"G", "2", ",", " ", "1", "t", "o", "5", "b", "y", "2", " ", "8", ",", " ", "Q", "U", "A", "D", "R", "A", "T", "I", "C", ",", " ", "2", ",", " ", "i", ",", " ", ",", " ", "l", "i", "n", "e", "a", "r", ",", " ", "1", ".", "5", ",", " ", "j", ",", " ", "0", ".", "5", ",", " ", "1">>
TsRowCont == <<"G", "3", ",", " ", "4", ",", " ", "L", "I", "N", "E", "A", "R", ",", " ", ",", " ", ",", " ", ",", " ", "L", "I", "N", "E", "A", "R", " ", "\\">>
TsRowShort == <<"G", "4", ",", " ", "4", ",", " ", "L", "I", "N", "E", "A", "R">>
TsRowZeroStep == <<"G", "5", ",", " ", "1", "t", "o", "5", "b", "y", "0", ",", " ", "L", "I", "N", "E", "A", "R", ",", " ", ",", " ", ",", " ", ",", " ", "L", "I", "N", "E", "A", "R">>
TsRowBlank == <<" ">>

TsRowsCorpus == {TsRowPlain, TsRowFull, TsRowCont, TsRowShort, TsRowZeroStep, TsRowBlank}

\* the rows of the corpus that parse_ts_group_line turns into a record
TsRowsDecoded == {TsRowPlain, TsRowFull, TsRowCont}

TsgInit ==
    /\ dec_pc = "build"
    /\ dec_lines = <<LnTsGroup>>
    /\ dec_toks = <<>>

\* the caller appends a body row to the block
TsgAddRow(r) ==
    /\ dec_pc = "build"
    /\ Len(dec_lines) <= MaxTsRows
    /\ dec_lines' = Append(dec_lines, r)
    /\ UNCHANGED <<dec_pc, dec_toks, model, parseVars, idxVars, bstVars, prior, added, preVars, pydantic, scanVars>>

\* parse_ts_group(lines, line_nums)
TsgCall ==
    /\ dec_pc = "build"
    /\ model' = parse_ts_group(dec_lines, DecLineNums, model).model
    /\ dec_pc' = "done"
    /\ UNCHANGED <<dec_lines, dec_toks, parseVars, idxVars, bstVars, prior, added, preVars, pydantic, scanVars>>

\* a Result Model in which the blocks dispatched before TS-GROUP left a
\* record, an error and a warning
InitTsGroup ==
    ParserInit /\ model \in DecModels /\ IdxIdle /\ BstIdle /\ TsgInit /\ PreIdle /\ ScanIdle /\ OneBuild

NextTsGroup ==
    \/ \E r \in TsRowsCorpus : TsgAddRow(r)
    \/ TsgCall

SpecTsGroup == InitTsGroup /\ [][NextTsGroup]_vars

\* the block positions of the rows that are decoded into a record, in order
DecodedRowLines == SelectSeq(DecLineNums, LAMBDA k : k >= 2 /\ dec_lines[k] \in TsRowsDecoded)

TsGroupEntries == get_commands_by_type(model, "TS-GROUP")

\* C17: every successfully decoded TS-GROUP row is stored under its own key
\* TS-GROUP_<n> with n = 0, 1, 2, ... in row order: the keys are distinct,
\* no row is overwritten, and there are as many keys with the prefix as
\* decoded rows
C17_TsGroupKeys ==
    dec_pc = "done" =>
        /\ Len(TsGroupEntries) = Len(DecodedRowLines)
        /\ \A n \in 1..Len(TsGroupEntries) :
              /\ TsGroupEntries[n].key = "TS-GROUP_" \o ToString(n - 1)
              /\ TsGroupEntries[n].value.id = n - 1
              /\ TsGroupEntries[n].value.line_nums = <<DecodedRowLines[n]>>
        /\ \A a, b \in 1..Len(TsGroupEntries) :
              TsGroupEntries[a].key = TsGroupEntries[b].key => a = b

\* C17 witness: a block in which a rejected row stands between two decoded
\* rows was decoded into TS-GROUP_0 and TS-GROUP_1
C17_Witness ==
    /\ dec_pc = "done"
    /\ dec_lines = <<LnTsGroup, TsRowPlain, TsRowShort, TsRowFull>>
    /\ DictKeys(TsGroupEntries) = {"TS-GROUP_0", "TS-GROUP_1"}
    /\ get_command(model, "TS-GROUP_1").elements = <<1, 3, 5, 8>>

(***************************************************************************)
(* One parser object used for several parse_text calls in a row: the       *)
(* caller parses a text, then other texts, and then the first text again   *)
(***************************************************************************)

\* most lines of a document given to the reused parser
MaxReuseLines == 2

\* the parse_text calls made on the one parser
MaxParses == 3

ReuseLines == {LnTsGroup, TsRowCont, TsRowShort, LnVersion}

\* the texts parsed in between: one that leaves TS-GROUP_0, one that leaves
\* another record, one that leaves a warning and one that leaves an error
OtherTexts ==
    {<<LnTsGroup, TsRowCont>>, <<LnVersion, TsRowCont>>, <<LnTsGroup, TsRowShort>>,
     <<LnTsGroup>>}

IsPrefix(a, b) == Len(a) <= Len(b) /\ SubSeq(b, 1, Len(a)) = a

\* the caller appends one more line to the first document or to the last
\* one, which repeats the first
ReuseAddLine(l) ==
    /\ pc = "idle"
    /\ Len(text) < MaxReuseLines
    /\ Len(prior) \in {0, MaxParses - 1}
    /\ Len(prior) = MaxParses - 1 => IsPrefix(Append(text, l), prior[1].text)
    /\ text' = Append(text, l)
    /\ UNCHANGED <<pc, lines, model, command_blocks, current_cmd, cmd_lines,
                   cmd_line_nums, i, blk, calls, exc, idxVars, bstVars, decVars, prior, added, preVars, pydantic, scanVars>>

\* the caller hands the parser one of the texts parsed in between
ReuseOther(t) ==
    /\ pc = "idle"
    /\ text = <<>>
    /\ Len(prior) \in 1..(MaxParses - 2)
    /\ text' = t
    /\ UNCHANGED <<pc, lines, model, command_blocks, current_cmd, cmd_lines,
                   cmd_line_nums, i, blk, calls, exc, idxVars, bstVars, decVars, prior, added, preVars, pydantic, scanVars>>

\* parse_text has returned or raised; the caller keeps the outcome and
\* starts a new document for the same parser
ParseAgain ==
    /\ pc \in {"done", "raised"}
    /\ Len(prior) < MaxParses - 1
    /\ prior' = Append(prior, [text |-> text, exc |-> exc, model |-> model])
    /\ text' = <<>>
    /\ exc' = ""
    /\ pc' = "idle"
    /\ UNCHANGED <<lines, model, command_blocks, current_cmd, cmd_lines,
                   cmd_line_nums, i, blk, calls, idxVars, bstVars, decVars, added,
                   preVars, pydantic, scanVars>>

InitReuse ==
    ParserInit /\ model = NewMCTModel /\ IdxIdle /\ BstIdle /\ DecIdle /\ PreIdle /\ ScanIdle /\ OneBuild

NextReuse ==
    \/ \E l \in ReuseLines : ReuseAddLine(l)
    \/ \E t \in OtherTexts : ReuseOther(t)
    \/ ParseText
    \/ SplitLine
    \/ SplitFinish
    \/ DispatchBlock
    \/ ParseReturn
    \/ ParseAgain

SpecReuse == InitReuse /\ [][NextReuse]_vars

\* C15: each parse_text call starts from a new empty Result Model, and the
\* outcome of parsing a text on a parser that has parsed other texts before
\* (commands, errors, warnings, or the exception) is the outcome the same
\* text had on the fresh parser
C15_FreshModelPerParse ==
    /\ [][(pc = "idle" /\ pc' = "split") => model' = NewMCTModel]_vars
    /\ [](pc \in {"done", "raised"} =>
            \A n \in 1..Len(prior) :
                prior[n].text = text => prior[n].exc = exc /\ prior[n].model = model)

\* C15 witness: a TS-GROUP document was parsed on the fresh parser, then a
\* document that left a record, then the TS-GROUP document again, which
\* stored TS-GROUP_0 once more
C15_Witness ==
    /\ pc = "done"
    /\ Len(prior) = 2
    /\ prior[1].text = text
    /\ prior[2].text # text
    /\ prior[2].model.commands # <<>>
    /\ DictKeys(model.commands) = {"TS-GROUP_0"}

\* a source line as a TS-GROUP record keeps it: continuation marks removed
NoContinuation(line) == Strip(SelectSeq(line, LAMBDA c : c # "\\"))

MaxAdds == 3

\* most entries appended to the error log
MaxModelErrors == 1

ModelKeys == {"NODE", "VERSION", "TS-GROUP_0"}

ModelValues ==
    {[raw_lines |-> <<LnVersion>>, line_nums |-> <<1>>],
     [raw_lines |-> <<LnRow>>, line_nums |-> <<2>>]}

\* model.add_command(k, v)
ModAdd(k, v) ==
    /\ pc = "idle" /\ dec_pc = "off" /\ pre_pc = "off"
    /\ Len(added) < MaxAdds
    /\ model' = add_command(model, k, v)
    /\ added' = Append(added, [key |-> k, value |-> v])
    /\ UNCHANGED <<parseVars, idxVars, bstVars, decVars, prior, preVars, pydantic, scanVars>>

\* model.errors.append(...), as the decoders do
ModError ==
    /\ pc = "idle" /\ dec_pc = "off" /\ pre_pc = "off"
    /\ Len(model.errors) < MaxModelErrors
    /\ model' = AddError(model, LogEntry("caller", <<>>, Len(added), "error"))
    /\ UNCHANGED <<parseVars, idxVars, bstVars, decVars, prior, added, preVars, pydantic, scanVars>>

InitModel ==
    ParserInit /\ model = NewMCTModel /\ IdxIdle /\ BstIdle /\ DecIdle /\ PreIdle /\ ScanIdle /\ OneBuild

NextModel ==
    \/ \E k \in ModelKeys, v \in ModelValues : ModAdd(k, v)
    \/ ModError

SpecModel == InitModel /\ [][NextModel]_vars

\* the add_command calls made for key k, as positions of the call log
AddsFor(k) == {n \in 1..Len(added) : added[n].key = k}

\* C18: after any sequence of add_command calls get_command(k) is the value
\* of the most recent call for k, or None if there was none; has_command(k)
\* holds exactly when a call for k was made; a call for k leaves the
\* entries of all other keys and both logs as they were
C18_LastWriteWins ==
    /\ [](\A k \in ModelKeys :
            /\ has_command(model, k) <=> AddsFor(k) # {}
            /\ get_command(model, k) =
                  IF AddsFor(k) = {} THEN None ELSE added[MaxOf(AddsFor(k))].value)
    /\ [][added' # added =>
            /\ model'.errors = model.errors
            /\ model'.warnings = model.warnings
            /\ \A k \in ModelKeys \ {added'[Len(added')].key} :
                  /\ has_command(model', k) <=> has_command(model, k)
                  /\ get_command(model', k) = get_command(model, k)]_vars

\* C18 witness: NODE was added twice with different values, with an
\* add_command for another key and an error in between or around; the
\* second value is the one held
C18_Witness ==
    /\ Len(added) = 3
    /\ added[1].key = "NODE" /\ added[2].key = "VERSION" /\ added[3].key = "NODE"
    /\ added[1].value # added[3].value
    /\ get_command(model, "NODE") = added[3].value
    /\ model.errors # <<>>

(***************************************************************************)
(* _preprocess_line under test: the caller assembles a line character by   *)
(* character and calls the function                                        *)
(***************************************************************************)

\* most characters of the line
MaxLineLen == 4

LineChars == {";", " ", "\t", "a", "*"}

PreInit ==
    /\ pre_pc = "build"
    /\ pre_line = <<>>
    /\ pre_out = <<>>

\* the caller appends a character to the line
PreAddChar(c) ==
    /\ pre_pc = "build"
    /\ Len(pre_line) < MaxLineLen
    /\ pre_line' = Append(pre_line, c)
    /\ UNCHANGED <<pre_pc, pre_out, model, parseVars, idxVars, bstVars, decVars,
                   prior, added, pydantic, scanVars>>

\* self._preprocess_line(line)
PreCall ==
    /\ pre_pc = "build"
    /\ pre_out' = PreprocessLine(pre_line)
    /\ pre_pc' = "done"
    /\ UNCHANGED <<pre_line, model, parseVars, idxVars, bstVars, decVars, prior, added, pydantic, scanVars>>

InitPre ==
    ParserInit /\ model \in DecModels /\ IdxIdle /\ BstIdle /\ DecIdle /\ PreInit /\ ScanIdle /\ OneBuild

NextPre ==
    \/ \E c \in LineChars : PreAddChar(c)
    \/ PreCall

SpecPre == InitPre /\ [][NextPre]_vars

\* the part of the line before its first `;`, the whole line if it has none
BeforeMarker(line) ==
    LET marks == {k \in 1..Len(line) : line[k] = ";"}
    IN  IF marks = {} THEN line ELSE SubSeq(line, 1, MinOf(marks) - 1)

\* s without its leading and trailing blanks
Trimmed(s) ==
    LET solid == {k \in 1..Len(s) : s[k] \notin WS}
    IN  IF solid = {} THEN <<>> ELSE SubSeq(s, MinOf(solid), MaxOf(solid))

\* C19: _preprocess_line returns the part of the line before the first `;`
\* without leading and trailing whitespace, the whole line trimmed when it
\* has no `;`; the result holds no `;` and no leading or trailing
\* whitespace, applying the function to it gives it back, and the call
\* changes nothing but its result
C19_PreprocessLine ==
    /\ [](pre_pc = "done" =>
            /\ pre_out = Trimmed(BeforeMarker(pre_line))
            /\ \A k \in 1..Len(pre_out) : pre_out[k] # ";"
            /\ pre_out # <<>> => pre_out[1] \notin WS /\ pre_out[Len(pre_out)] \notin WS
            /\ PreprocessLine(pre_out) = pre_out)
    /\ [][pre_pc' # pre_pc =>
            UNCHANGED <<pre_line, model, parseVars, idxVars, bstVars, decVars>>]_vars

\* C19 witness: a line with text between blanks, followed by a comment
\* marker, was reduced to the text
C19_Witness ==
    /\ pre_pc = "done"
    /\ pre_line = <<" ", "a", " ", ";">>
    /\ pre_out = <<"a">>

(***************************************************************************)
(* parse_text on documents of SECTION and MATERIAL blocks                  *)
(***************************************************************************)

\* most lines of a document
MaxFamLines == 3

LnSection == <<"*", "S", "E", "C", "T", "I", "O", "N">>
SecRowRect == <<"1", ",", " ", "R", "E", "C", "T", ",", " ", "4", "0", "0", ",", " ", "8", "0", "0", " ", ";", " ", "c">>
SecRowDb == <<"2", ",", " ", "D", "B", "S", "E", "C", "T", ",", " ", "G", "B", ",", " ", "H", "=", "3", "0", "0", ",", " ", "2", "0">>
SecRowBad == <<"3", ",", " ", "T", "A", "P", "E", "R", "E", "D", ",", " ", "1", ",", " ", "x">>
LnMaterial == <<"*", "M", "A", "T", "E", "R", "I", "A", "L">>
MatRow == <<"1", ",", " ", "C", "O", "N", "C", ",", " ", "C", "4", "0", ",", " ", "0", ".", "2", "8", ",", " ", "1", ".", "6", "3", ",", " ", "E", "L", "A", "S", "T", "O", "-", "P", "L", "A", "S", "T", "I", "C", ",", " ", "C", ",", " ", "Y", "E", "S", ",", " ", "0", ".", "0", "5", ",", " ", "1", ",", " ", "G", "B", ",", " ", "C", "4", "0", ",", " ", "J", "G", "J", "T", ",", " ", "Y", "E", "S", ",", " ", "3", "4", "5", "0", "0">>
MatRowWood == <<"2", ",", " ", "W", "O", "O", "D", ",", " ", "W", "1", ",", " ", ",", " ", ",", " ", ",", " ", "C", ",", " ", "N", "O", ",", " ", ",", " ", "0", ",", " ">>

FamilyLines == {LnSection, SecRowRect, SecRowDb, SecRowBad, LnMaterial, MatRow, MatRowWood}

\* the caller appends one more line to the document
FamAddLine(l) ==
    /\ pc = "idle"
    /\ Len(text) < MaxFamLines
    /\ text' = Append(text, l)
    /\ UNCHANGED <<pc, lines, model, command_blocks, current_cmd, cmd_lines,
                   cmd_line_nums, i, blk, calls, exc, idxVars, bstVars, decVars, prior,
                   added, preVars, pydantic, scanVars>>

InitFamily ==
    ParserInit /\ model = NewMCTModel /\ IdxIdle /\ BstIdle /\ DecIdle /\ PreIdle /\ ScanIdle /\ OneBuild

NextFamily ==
    \/ \E l \in FamilyLines : FamAddLine(l)
    \/ ParseText
    \/ SplitLine
    \/ SplitFinish
    \/ DispatchBlock
    \/ ParseReturn

SpecFamily == InitFamily /\ [][NextFamily]_vars

\* the body rows of the corpus that are well-formed rows of a family, as
\* the splitter hands them to the family's decoder
WellFormedRows(parser) ==
    IF parser = "parse_section" THEN {PreprocessLine(SecRowRect), PreprocessLine(SecRowDb)}
    ELSE {PreprocessLine(MatRow)}

\* the error entries a decoder logged
ErrorsOf(parser) == {n \in 1..Len(model.errors) : model.errors[n].src = parser}

\* C20 (as claimed): the SECTION and MATERIAL decoders skip the header line
\* of the block: no error entry is logged for it, and a block whose body
\* rows are all well-formed is decoded with no error entry
C20_HeaderLineSkipped ==
    pc = "done" =>
        \A c \in 1..Len(calls) :
            calls[c].parser \in {"parse_section", "parse_material"} =>
                /\ \A n \in ErrorsOf(calls[c].parser) :
                      model.errors[n].line # calls[c].line_nums[1]
                /\ (\A k \in 2..Len(calls[c].lines) :
                        calls[c].lines[k] \in WellFormedRows(calls[c].parser))
                      => ErrorsOf(calls[c].parser) = {}

(***************************************************************************)
(* Documents of one decoder family given to parse_text: a block header     *)
(* followed by rows of that family                                         *)
(***************************************************************************)

\* the caller appends one more line to a document of at most `most` lines
AddRow(l, most) ==
    /\ pc = "idle"
    /\ Len(text) < most
    /\ text' = Append(text, l)
    /\ UNCHANGED <<pc, lines, model, command_blocks, current_cmd, cmd_lines,
                   cmd_line_nums, i, blk, calls, exc, idxVars, bstVars, decVars, prior, added, preVars, pydantic, scanVars>>

\* the rows of block c that are neither blank, comment nor header lines
BodyRows(c) == {k \in 1..Len(c.lines) : ~SkippedLine(c.lines[k])}

\* the decoder invocations of one parser
CallsOf(parser) == {n \in 1..Len(calls) : calls[n].parser = parser}

(***************************************************************************)
(* NODE documents                                                          *)
(***************************************************************************)

\* longest NODE document, in lines
MaxNodeLines == 4

\* `*NODE`, and the rows `1, 0, 0, 0`, `2, 1.5, 0, -2, 0, NO, 0.5, 0, 0`,
\* `3, 0, 0, 0, abc`, `4, 0, 0, 0, 0, YES, abc`, `5, 0, 0` and `6, x, 0, 0`
LnNode == <<"*", "N", "O", "D", "E">>
NdRowPlain == <<"1", ",", " ", "0", ",", " ", "0", ",", " ", "0">>
NdRowFull == <<"2", ",", " ", "1", ".", "5", ",", " ", "0", ",", " ", "-", "2", ",", " ", "0", ",", " ", "N", "O", ",", " ", "0", ".", "5", ",", " ", "0", ",", " ", "0">>
NdRowBadCs == <<"3", ",", " ", "0", ",", " ", "0", ",", " ", "0", ",", " ", "a", "b", "c">>
NdRowBadRx == <<"4", ",", " ", "0", ",", " ", "0", ",", " ", "0", ",", " ", "0", ",", " ", "Y", "E", "S", ",", " ", "a", "b", "c">>
NdRowShort == <<"5", ",", " ", "0", ",", " ", "0">>
NdRowBadX == <<"6", ",", " ", "x", ",", " ", "0", ",", " ", "0">>

NodeRowsCorpus == {NdRowPlain, NdRowFull, NdRowBadCs, NdRowBadRx, NdRowShort, NdRowBadX}

\* the lines tried at the position after the lines of text
NodeLinesAt(p) == IF p = 1 THEN {LnNode} ELSE NodeRowsCorpus

InitNode ==
    ParserInit /\ model = NewMCTModel /\ IdxIdle /\ BstIdle /\ DecIdle /\ PreIdle /\ ScanIdle /\ OneBuild

NextNode ==
    \/ \E l \in NodeLinesAt(Len(text) + 1) : AddRow(l, MaxNodeLines)
    \/ ParseText
    \/ SplitLine
    \/ SplitFinish
    \/ DispatchBlock
    \/ ParseReturn

SpecNode == InitNode /\ [][NextNode]_vars

\* the rows of a NODE block whose id, x, y and z convert
NodeRowsValid(c) ==
    {k \in BodyRows(c) : Len(SplitComma(c.lines[k])) >= 4
                         /\ ~NodeRequiredError(SplitComma(c.lines[k]))}

\* C21 (as claimed): a conversion failure in an optional field never fails
\* the row or the block: after a parse every NODE row whose id, x, y and z
\* are valid has its node in the NODE record, whatever its optional fields
\* hold
C21_OptionalFieldDefaults ==
    pc = "done" =>
        \A n \in CallsOf("parse_node") :
            \A k \in NodeRowsValid(calls[n]) :
                /\ has_command(model, "NODE")
                /\ \E e \in 1..Len(get_command(model, "NODE").nodes) :
                      get_command(model, "NODE").nodes[e].key
                          = IntVal(SplitComma(calls[n].lines[k])[1])

(***************************************************************************)
(* Documents of one row-per-record block                                   *)
(***************************************************************************)

MaxRowLines == 4

\* the header lines and rows of the row-per-record families:
\*   LnElement is `*ELEMENT`
\*   LnConstraint is `*CONSTRAINT`
\*   LnSpring is `*SPRING`
\*   LnBeamLoad is `*BEAMLOAD`
\*   LnPrestress is `*PRESTRESS`
\*   ElRowPlain is `1, BEAM, 1, 1, 1, 2, 0`
\*   ElRowBeta is `2, beam, 1, 1, 2, 3, LOCAL, BETA, 30`
\*   ElRowShort is `3, BEAM, 1, 1, 1, 2`
\*   ElRowBadId is `x, BEAM, 1, 1, 1, 2, 0`
\*   CoRowPlain is `1 3to4, FIX, 1, 1, 0`
\*   CoRowShort is `5`
\*   CoRowBadIds is `1to3by0, FIX`
\*   SpRowPlain is `1, 10, 0, 0, 0, 0, x, LOCAL=1`
\*   SpRowShort is `2, 10, 0`
\*   BlRowPlain is `1to2, UNILOAD, GZ, -10`
\*   BlRowGroup is `3, UNILOAD, GZ, 0, 1, GROUP=g1`
\*   BlRowShort is `4, UNILOAD`
\*   PsRowPlain is `1, PRE, 100, 0, 0.5, 0, g`
\*   PsRowShort is `2, PRE, 100`
\*   PsRowBadDrape is `3, PRE, 100, x, 0, 0`
LnElement == <<"*", "E", "L", "E", "M", "E", "N", "T">>
LnConstraint == <<"*", "C", "O", "N", "S", "T", "R", "A", "I", "N", "T">>
LnSpring == <<"*", "S", "P", "R", "I", "N", "G">>
LnBeamLoad == <<"*", "B", "E", "A", "M", "L", "O", "A", "D">>
LnPrestress == <<"*", "P", "R", "E", "S", "T", "R", "E", "S", "S">>
ElRowPlain == <<"1", ",", " ", "B", "E", "A", "M", ",", " ", "1", ",", " ", "1", ",", " ", "1", ",", " ", "2", ",", " ", "0">>
ElRowBeta == <<"2", ",", " ", "b", "e", "a", "m", ",", " ", "1", ",", " ", "1", ",", " ", "2", ",", " ", "3", ",", " ", "L", "O", "C", "A", "L", ",", " ", "B", "E", "T", "A", ",", " ", "3", "0">>
ElRowShort == <<"3", ",", " ", "B", "E", "A", "M", ",", " ", "1", ",", " ", "1", ",", " ", "1", ",", " ", "2">>
ElRowBadId == <<"x", ",", " ", "B", "E", "A", "M", ",", " ", "1", ",", " ", "1", ",", " ", "1", ",", " ", "2", ",", " ", "0">>
CoRowPlain == <<"1", " ", "3", "t", "o", "4", ",", " ", "F", "I", "X", ",", " ", "1", ",", " ", "1", ",", " ", "0">>
CoRowShort == <<"5">>
CoRowBadIds == <<"1", "t", "o", "3", "b", "y", "0", ",", " ", "F", "I", "X">>
SpRowPlain == <<"1", ",", " ", "1", "0", ",", " ", "0", ",", " ", "0", ",", " ", "0", ",", " ", "0", ",", " ", "x", ",", " ", "L", "O", "C", "A", "L", "=", "1">>
SpRowShort == <<"2", ",", " ", "1", "0", ",", " ", "0">>
BlRowPlain == <<"1", "t", "o", "2", ",", " ", "U", "N", "I", "L", "O", "A", "D", ",", " ", "G", "Z", ",", " ", "-", "1", "0">>
BlRowGroup == <<"3", ",", " ", "U", "N", "I", "L", "O", "A", "D", ",", " ", "G", "Z", ",", " ", "0", ",", " ", "1", ",", " ", "G", "R", "O", "U", "P", "=", "g", "1">>
BlRowShort == <<"4", ",", " ", "U", "N", "I", "L", "O", "A", "D">>
PsRowPlain == <<"1", ",", " ", "P", "R", "E", ",", " ", "1", "0", "0", ",", " ", "0", ",", " ", "0", ".", "5", ",", " ", "0", ",", " ", "g">>
PsRowShort == <<"2", ",", " ", "P", "R", "E", ",", " ", "1", "0", "0">>
PsRowBadDrape == <<"3", ",", " ", "P", "R", "E", ",", " ", "1", "0", "0", ",", " ", "x", ",", " ", "0", ",", " ", "0">>

\* the rows tried under a header line
RowsUnder(header) ==
    CASE header = LnNode -> {NdRowPlain, NdRowShort, NdRowBadRx}
      [] header = LnElement -> {ElRowPlain, ElRowBeta, ElRowShort, ElRowBadId}
      [] header = LnConstraint -> {CoRowPlain, CoRowShort, CoRowBadIds}
      [] header = LnSpring -> {SpRowPlain, SpRowShort}
      [] header = LnBeamLoad -> {BlRowPlain, BlRowGroup, BlRowShort}
      [] header = LnPrestress -> {PsRowPlain, PsRowShort, PsRowBadDrape}

\* the lines tried after the lines t
RowLinesAfter(t) ==
    IF t = <<>> THEN {LnNode, LnElement, LnConstraint, LnSpring, LnBeamLoad, LnPrestress}
    ELSE RowsUnder(t[1])

InitRow ==
    ParserInit /\ model = NewMCTModel /\ IdxIdle /\ BstIdle /\ DecIdle /\ PreIdle /\ ScanIdle /\ AnyBuild

NextRow ==
    \/ \E l \in RowLinesAfter(text) : AddRow(l, MaxRowLines)
    \/ ParseText
    \/ SplitLine
    \/ SplitFinish
    \/ DispatchBlock
    \/ ParseReturn

SpecRow == InitRow /\ [][NextRow]_vars

\* the decoders that read one record per row and reject rows with too few
\* fields, with the least number of fields each accepts
RowParsers ==
    {"parse_node", "parse_element", "parse_constraint", "parse_spring",
     "parse_beamload", "parse_prestress"}

MinFields(parser) ==
    CASE parser = "parse_node" -> 4
      [] parser = "parse_element" -> 7
      [] parser = "parse_constraint" -> 2
      [] parser = "parse_spring" -> 8
      [] parser = "parse_beamload" -> 4
      [] parser = "parse_prestress" -> 6

\* the field of a family's record that holds its decoded rows
Container(parser, rec) ==
    CASE parser = "parse_node" -> rec.nodes
      [] parser = "parse_element" -> rec.elements
      [] parser = "parse_constraint" -> rec.constraints
      [] parser = "parse_spring" -> rec.springs
      [] parser = "parse_beamload" -> rec.beamloads
      [] parser = "parse_prestress" -> rec.prestresses

\* the body rows of a block with fewer fields than its family's minimum
ShortRows(parser, blines) ==
    IF parser \in {"parse_node", "parse_element"}
    THEN {k \in 1..Len(blines) :
            /\ ~SkippedLine(PreprocessLine(blines[k]))
            /\ Len(SplitComma(PreprocessLine(blines[k]))) < MinFields(parser)}
    ELSE {k \in 2..Len(blines) :
            /\ Strip(blines[k]) # <<>>
            /\ Len(SplitComma(Strip(blines[k]))) < MinFields(parser)}

\* the block with row k emptied, every other row keeping its position
WithoutRow(blines, k) == [blines EXCEPT ![k] = <<>>]

\* log `with` is log `without` plus exactly one entry, which carries line num
OneMoreEntry(with, without, num) ==
    /\ Len(with) = Len(without) + 1
    /\ \E p \in 1..Len(with) :
          /\ with[p].line = num
          /\ SubSeq(with, 1, p - 1) \o SubSeq(with, p + 1, Len(with)) = without

\* the model the dispatcher is left with after decoding the lines as a block
\* of keyword cmd_name
Dispatched(parser, cmd_name, blines, line_nums, m) ==
    CatchDecoderError(Decode(parser, blines, line_nums, m), cmd_name)

\* the command type under which a family stores its record
RecordKey(parser) ==
    CASE parser = "parse_node" -> "NODE"
      [] parser = "parse_element" -> "ELEMENT"
      [] parser = "parse_constraint" -> "CONSTRAINT"
      [] parser = "parse_spring" -> "SPRING"
      [] parser = "parse_beamload" -> "BEAMLOAD"
      [] parser = "parse_prestress" -> "PRESTRESS"

\* the decoded rows model m holds for a family, <<>> when it holds no record
Decoded(parser, m) ==
    IF has_command(m, RecordKey(parser))
    THEN <<Container(parser, get_command(m, RecordKey(parser)))>>
    ELSE <<>>

\* C22: in the decoders NODE, ELEMENT, CONSTRAINT, SPRING, BEAMLOAD and
\* PRESTRESS, a body row with fewer fields than the family's minimum adds
\* exactly one error entry carrying that row's line number and nothing else:
\* the decoded rows, the warnings and the other error entries after the block
\* are those the block gives with that row left out.
C22_ShortRowSkipped ==
    [][(pc = "dispatch" /\ blk <= Len(command_blocks) /\ blk' = blk + 1
            /\ IsRegistered(command_blocks[blk].key)
            /\ command_parsers[command_blocks[blk].key] \in RowParsers) =>
          LET cmd_name == command_blocks[blk].key
              parser == command_parsers[cmd_name]
              blines == command_blocks[blk].value.lines
              line_nums == command_blocks[blk].value.line_nums
              Same(k, without) ==
                  /\ OneMoreEntry(model'.errors, without.errors, line_nums[k])
                  /\ model'.warnings = without.warnings
                  /\ Decoded(parser, model') = Decoded(parser, without)
          IN  \A k \in ShortRows(parser, blines) :
                  Same(k, Dispatched(parser, cmd_name, WithoutRow(blines, k), line_nums, model))
      ]_vars

\* a BEAMLOAD block whose first row is short and whose second row is
\* decoded: one error entry with the first row's line number, one decoded row
C22_Witness ==
    /\ pc = "done"
    /\ \E n \in CallsOf("parse_beamload") :
          /\ 2 \in ShortRows("parse_beamload", calls[n].lines)
          /\ Len(calls[n].lines) = 3
    /\ has_command(model, "BEAMLOAD")
    /\ Len(get_command(model, "BEAMLOAD").beamloads) = 1
    /\ Len(model.errors) = 1
    /\ model.errors[1].line = 2

(***************************************************************************)
(* SECT-PSCVALUE documents                                                 *)
(***************************************************************************)

MaxPscLines == 4

\* the header line and the rows of SECT-PSCVALUE documents:
\*   LnSectPsc is `*SECT-PSCVALUE`
\*   PvSect1 is `SECT=1`
\*   PvSect2 is `SECT=2, BPAR=5, x`
\*   PvSectBad is `SECT=a`
\*   PvOpoly is `OPOLY=0,0, 1,0`
\*   PvIpoly is `IPOLY=YES, 1,1`
\*   PvLine is `LINE=1,2,3,4`
\*   PvData is `A, 1`
LnSectPsc == <<"*", "S", "E", "C", "T", "-", "P", "S", "C", "V", "A", "L", "U", "E">>
PvSect1 == <<"S", "E", "C", "T", "=", "1">>
PvSect2 == <<"S", "E", "C", "T", "=", "2", ",", " ", "B", "P", "A", "R", "=", "5", ",", " ", "x">>
PvSectBad == <<"S", "E", "C", "T", "=", "a">>
PvOpoly == <<"O", "P", "O", "L", "Y", "=", "0", ",", "0", ",", " ", "1", ",", "0">>
PvIpoly == <<"I", "P", "O", "L", "Y", "=", "Y", "E", "S", ",", " ", "1", ",", "1">>
PvLine == <<"L", "I", "N", "E", "=", "1", ",", "2", ",", "3", ",", "4">>
PvData == <<"A", ",", " ", "1">>

PscRowsCorpus == {PvSect1, PvSect2, PvSectBad, PvOpoly, PvIpoly, PvLine, PvData}

PscLinesAt(p) == IF p = 1 THEN {LnSectPsc} ELSE PscRowsCorpus

InitPsc ==
    ParserInit /\ model = NewMCTModel /\ IdxIdle /\ BstIdle /\ DecIdle /\ PreIdle /\ ScanIdle /\ OneBuild

NextPsc ==
    \/ \E l \in PscLinesAt(Len(text) + 1) : AddRow(l, MaxPscLines)
    \/ ParseText
    \/ SplitLine
    \/ SplitFinish
    \/ DispatchBlock
    \/ ParseReturn

SpecPsc == InitPsc /\ [][NextPsc]_vars

\* the text after `SECT=` up to the first comma
PscHeaderId(line) == Strip(SplitOnce(SplitOn(line, <<",">>)[1], <<"=">>)[2])

\* a SECT= line whose id is an integer
PscValidHeader(line) ==
    StartsWith(line, <<"S", "E", "C", "T", "=">>) /\ IntOk(PscHeaderId(line))

\* the rows of block c that are valid SECT= headers
PscHeaders(c) == {h \in 1..Len(c.lines) : PscValidHeader(PreprocessLine(c.lines[h]))}

\* the polygon-start rows of block c whose most recent valid header has id s
PscPolygonRows(c, s) ==
    {k \in 1..Len(c.lines) :
        /\ PscPolygonStart(PreprocessLine(c.lines[k]))
        /\ \E h \in PscHeaders(c) :
              /\ h < k
              /\ \A g \in PscHeaders(c) : g < k => g <= h
              /\ IntVal(PscHeaderId(PreprocessLine(c.lines[h]))) = s}

\* what identifies a polygon: its type and its points
PscShape(polygon) == [type |-> polygon.type, points |-> polygon.points]

\* the shapes of the polygon-start rows of section s, in row order
PscShapesRead(c, s) ==
    LET rows == SelectSeq([k \in 1..Len(c.lines) |-> k], LAMBDA k : k \in PscPolygonRows(c, s))
    IN  [j \in 1..Len(rows) |-> PscShape(PscPolygon(PreprocessLine(c.lines[rows[j]])))]

\* the shapes of the polygons stored for section s
PscShapesStored(rec, s) ==
    IF s \in DictKeys(rec.sections)
    THEN [j \in 1..Len(DictGet(rec.sections, s).polygons) |->
             PscShape(DictGet(rec.sections, s).polygons[j])]
    ELSE <<>>

\* every polygon-start row of block c comes after a valid SECT= header
PscAllUnderHeader(c) ==
    \A k \in 1..Len(c.lines) :
        PscPolygonStart(PreprocessLine(c.lines[k])) => \E h \in PscHeaders(c) : h < k

\* C23 (as claimed): every polygon-start line that follows a valid SECT=
\* header is exactly one entry of that section's polygons list and of no
\* other: after a parse of a block whose polygon lines all follow a header,
\* the polygons stored for each section are those of the polygon-start
\* lines under its headers, in line order.
C23_PolygonsFlushed ==
    pc = "done" =>
        \A n \in CallsOf("parse_sect_pscvalue") :
            PscAllUnderHeader(calls[n]) =>
                /\ has_command(model, "SECT-PSCVALUE")
                /\ \A h \in PscHeaders(calls[n]) :
                      LET s == IntVal(PscHeaderId(PreprocessLine(calls[n].lines[h])))
                      IN  PscShapesStored(get_command(model, "SECT-PSCVALUE"), s)
                              = PscShapesRead(calls[n], s)

\* the flush itself: a polygon line under one header followed by the next
\* header, and the polygon is in the first section
C23_Witness ==
    /\ pc = "done"
    /\ text = <<LnSectPsc, PvSect1, PvOpoly, PvSect2>>
    /\ has_command(model, "SECT-PSCVALUE")
    /\ Len(DictGet(get_command(model, "SECT-PSCVALUE").sections, 1).polygons) = 1
    /\ DictGet(get_command(model, "SECT-PSCVALUE").sections, 2).polygons = <<>>

(***************************************************************************)
(* LOAD-SEQ documents                                                      *)
(***************************************************************************)

MaxSeqLines == 4

\* the header line and the rows of LOAD-SEQ documents:
\*   LnLoadSeq is `*LOAD-SEQ`
\*   SqHead1 is `1 SEQ1`
\*   SqHead2 is `2 SEQ2`
\*   SqStage1 is `1 CS ST1`
\*   SqStage2 is `2 CS ST2 GTYPE=a`
\*   SqShort is `x`
LnLoadSeq == <<"*", "L", "O", "A", "D", "-", "S", "E", "Q">>
SqHead1 == <<"1", " ", "S", "E", "Q", "1">>
SqHead2 == <<"2", " ", "S", "E", "Q", "2">>
SqStage1 == <<"1", " ", "C", "S", " ", "S", "T", "1">>
SqStage2 == <<"2", " ", "C", "S", " ", "S", "T", "2", " ", "G", "T", "Y", "P", "E", "=", "a">>
SqShort == <<"x">>

SeqRowsCorpus == {SqHead1, SqHead2, SqStage1, SqStage2, SqShort}

SeqLinesAt(p) == IF p = 1 THEN {LnLoadSeq} ELSE SeqRowsCorpus

InitSeq ==
    ParserInit /\ model = NewMCTModel /\ IdxIdle /\ BstIdle /\ DecIdle /\ PreIdle /\ ScanIdle /\ AnyBuild

NextSeq ==
    \/ \E l \in SeqLinesAt(Len(text) + 1) : AddRow(l, MaxSeqLines)
    \/ ParseText
    \/ SplitLine
    \/ SplitFinish
    \/ DispatchBlock
    \/ ParseReturn

SpecSeq == InitSeq /\ [][NextSeq]_vars

\* a sequence-header row: a numeric id followed by a name
SeqHeaderRow(line) ==
    Len(SplitWS(line)) = 2 /\ IsDigits(SplitWS(line)[1])

\* a stage row: a numeric id, a type and a name, options after them
SeqStageRow(line) ==
    Len(SplitWS(line)) >= 3 /\ IsDigits(SplitWS(line)[1])

\* the body rows of block c that are sequence headers, in row order
SeqHeaders(c) ==
    SelectSeq([k \in 1..Len(c.lines) |-> k], LAMBDA k : k >= 2 /\ SeqHeaderRow(c.lines[k]))

\* a block of sequence headers and stage rows that starts with a header
SeqWellFormed(c) ==
    /\ Len(c.lines) >= 2
    /\ SeqHeaderRow(c.lines[2])
    /\ \A k \in 2..Len(c.lines) : SeqHeaderRow(c.lines[k]) \/ SeqStageRow(c.lines[k])

\* the ids of the stage rows between header row h and the next header row
SeqStageIds(c, h) ==
    LET rows == SelectSeq([k \in 1..Len(c.lines) |-> k],
                    LAMBDA k : /\ k > h
                               /\ SeqStageRow(c.lines[k])
                               /\ \A g \in (h + 1)..k : ~SeqHeaderRow(c.lines[g]))
    IN  [j \in 1..Len(rows) |-> DigitsVal(SplitWS(c.lines[rows[j]])[1])]

\* C24 (as claimed): every sequence-header row starts a new sequence and
\* every stage row becomes a stage of the most recent header: after a parse
\* of a block of headers and stage rows, the LOAD-SEQ record holds one
\* sequence per header row, in header order, each with the ids of its stage
\* rows in row order.
C24_SequencesInOrder ==
    pc = "done" =>
        \A n \in CallsOf("parse_load_seq") :
            SeqWellFormed(calls[n]) =>
                /\ has_command(model, "LOAD-SEQ")
                /\ Len(get_command(model, "LOAD-SEQ").sequences) = Len(SeqHeaders(calls[n]))
                /\ \A j \in 1..Len(SeqHeaders(calls[n])) :
                      LET seq == get_command(model, "LOAD-SEQ").sequences[j]
                          h == SeqHeaders(calls[n])[j]
                      IN  /\ seq.id = DigitsVal(SplitWS(calls[n].lines[h])[1])
                          /\ seq.name = SplitWS(calls[n].lines[h])[2]
                          /\ [s \in 1..Len(seq.stages) |-> seq.stages[s].id]
                                 = SeqStageIds(calls[n], h)

(***************************************************************************)
(* ELASTICLINK documents                                                   *)
(***************************************************************************)

MaxLinkLines == 4

\* the header line and the rows of ELASTICLINK documents:
\*   LnElasticLink is `*ELASTICLINK`
\*   ElkRigid is `1, 2, 3, RIGID, 0, YES, 0.5, x, g`
\*   ElkSaddle is `2, 2, 3, saddle, , NO`
\*   ElkTens is `3, 2, 3, TENS, 0, 10, NO, 1, 2, g`
\*   ElkMulti is `4, 2, 3, MULTI LINEAR, 0, X, F1, YES, 1, g`
\*   ElkOther is `5, 2, 3, FOO, 0, a, , b`
\*   ElkGen is `6, 2, 3, GEN, 0, 1, x`
\*   ElkShort is `7, 2, 3`
\*   ElkBadAngle is `8, 2, 3, COMP, x`
LnElasticLink == <<"*", "E", "L", "A", "S", "T", "I", "C", "L", "I", "N", "K">>
ElkRigid == <<"1", ",", " ", "2", ",", " ", "3", ",", " ", "R", "I", "G", "I", "D", ",", " ", "0", ",", " ", "Y", "E", "S", ",", " ", "0", ".", "5", ",", " ", "x", ",", " ", "g">>
ElkSaddle == <<"2", ",", " ", "2", ",", " ", "3", ",", " ", "s", "a", "d", "d", "l", "e", ",", " ", ",", " ", "N", "O">>
ElkTens == <<"3", ",", " ", "2", ",", " ", "3", ",", " ", "T", "E", "N", "S", ",", " ", "0", ",", " ", "1", "0", ",", " ", "N", "O", ",", " ", "1", ",", " ", "2", ",", " ", "g">>
ElkMulti == <<"4", ",", " ", "2", ",", " ", "3", ",", " ", "M", "U", "L", "T", "I", " ", "L", "I", "N", "E", "A", "R", ",", " ", "0", ",", " ", "X", ",", " ", "F", "1", ",", " ", "Y", "E", "S", ",", " ", "1", ",", " ", "g">>
ElkOther == <<"5", ",", " ", "2", ",", " ", "3", ",", " ", "F", "O", "O", ",", " ", "0", ",", " ", "a", ",", " ", ",", " ", "b">>
ElkGen == <<"6", ",", " ", "2", ",", " ", "3", ",", " ", "G", "E", "N", ",", " ", "0", ",", " ", "1", ",", " ", "x">>
ElkShort == <<"7", ",", " ", "2", ",", " ", "3">>
ElkBadAngle == <<"8", ",", " ", "2", ",", " ", "3", ",", " ", "C", "O", "M", "P", ",", " ", "x">>

LinkRowsCorpus == {ElkRigid, ElkSaddle, ElkTens, ElkMulti, ElkOther, ElkGen, ElkShort, ElkBadAngle}

LinkLinesAt(p) == IF p = 1 THEN {LnElasticLink} ELSE LinkRowsCorpus

InitLink ==
    ParserInit /\ model = NewMCTModel /\ IdxIdle /\ BstIdle /\ DecIdle /\ PreIdle /\ ScanIdle /\ OneBuild

NextLink ==
    \/ \E l \in LinkLinesAt(Len(text) + 1) : AddRow(l, MaxLinkLines)
    \/ ParseText
    \/ SplitLine
    \/ SplitFinish
    \/ DispatchBlock
    \/ ParseReturn

SpecLink == InitLink /\ [][NextLink]_vars

\* the rows of block c with id, master node, slave node, type and angle: at
\* least five fields, the ids integers, the angle a number or empty
LinkRowsValid(c) ==
    {k \in BodyRows(c) :
        LET parts == SplitComma(c.lines[k])
        IN  /\ Len(parts) >= 5
            /\ IntOk(parts[1]) /\ IntOk(parts[2]) /\ IntOk(parts[3])
            /\ (Strip(parts[5]) = <<>> \/ FloatOk(parts[5]))}

\* the option fields of the recognized link types: key, position of the
\* field counted from 1, and how the field is read
LinkFieldTable(tag) ==
    IF tag \in {<<"R", "I", "G", "I", "D">>, <<"S", "A", "D", "D", "L", "E">>}
    THEN <<[key |-> "bSHEAR", pos |-> 6, kind |-> "flag"],
           [key |-> "DRy", pos |-> 7, kind |-> "float"],
           [key |-> "DRz", pos |-> 8, kind |-> "float"],
           [key |-> "group", pos |-> 9, kind |-> "text"]>>
    ELSE IF tag \in {<<"T", "E", "N", "S">>, <<"C", "O", "M", "P">>}
    THEN <<[key |-> "SDx", pos |-> 6, kind |-> "float"],
           [key |-> "bSHEAR", pos |-> 7, kind |-> "flag"],
           [key |-> "DRy", pos |-> 8, kind |-> "float"],
           [key |-> "DRz", pos |-> 9, kind |-> "float"],
           [key |-> "group", pos |-> 10, kind |-> "text"]>>
    ELSE <<[key |-> "DIR", pos |-> 6, kind |-> "text"],
           [key |-> "FUNCTION", pos |-> 7, kind |-> "text"],
           [key |-> "bSHEAR", pos |-> 8, kind |-> "flag"],
           [key |-> "DRENDI", pos |-> 9, kind |-> "float"],
           [key |-> "group", pos |-> 10, kind |-> "text"]>>

LinkTagged(tag) ==
    \/ tag \in {<<"R", "I", "G", "I", "D">>, <<"S", "A", "D", "D", "L", "E">>,
                <<"T", "E", "N", "S">>, <<"C", "O", "M", "P">>}
    \/ Contains(tag, <<"M", "U", "L", "T", "I">>)

\* the field of the table is stored by the row: a flag whenever the field
\* exists, a text when it is not empty, a number when it is one
LinkFieldStored(f, parts) ==
    /\ Len(parts) >= f.pos
    /\ f.kind = "text" => Strip(parts[f.pos]) # <<>>
    /\ f.kind = "float" => Strip(parts[f.pos]) # <<>> /\ FloatOk(parts[f.pos])

LinkFieldValue(f, parts) ==
    IF f.kind = "flag" THEN Upper(Strip(parts[f.pos])) = YES
    ELSE IF f.kind = "float" THEN FloatVal(parts[f.pos])
    ELSE Strip(parts[f.pos])

\* the options a row of a recognized type is to have
LinkOptionsTagged(options, tag, parts) ==
    /\ DictKeys(options) =
           {LinkFieldTable(tag)[n].key :
               n \in {x \in 1..Len(LinkFieldTable(tag)) :
                         LinkFieldStored(LinkFieldTable(tag)[x], parts)}}
    /\ \A n \in 1..Len(LinkFieldTable(tag)) :
          LinkFieldStored(LinkFieldTable(tag)[n], parts) =>
              DictGet(options, LinkFieldTable(tag)[n].key)
                  = LinkFieldValue(LinkFieldTable(tag)[n], parts)

\* the options a row of any other type is to have: every non-empty field
\* after the angle under param<k>, k its 0-based offset after the angle
LinkOptionsOther(options, parts) ==
    /\ Len(options) = Cardinality({j \in 6..Len(parts) : Strip(parts[j]) # <<>>})
    /\ \A j \in 6..Len(parts) :
          Strip(parts[j]) # <<>> =>
              \E n \in 1..Len(options) :
                  /\ options[n].key = <<"p", "a", "r", "a", "m">> \o NatToStr(j - 6)
                  /\ options[n].value = Strip(parts[j])

\* C25: after a parse, every ELASTICLINK row with valid id, nodes and angle
\* is stored under its integer id with master node, slave node, upper-cased
\* type and angle; a RIGID/SADDLE row holds fields 6-9 as bSHEAR, DRy, DRz,
\* group, a TENS/COMP row fields 6-10 as SDx, bSHEAR, DRy, DRz, group, a
\* MULTI row DIR, FUNCTION, bSHEAR, DRENDI, group, and a row of any other
\* type except GEN holds every non-empty field after the angle as param<k>.
C25_LinkTagDispatch ==
    pc = "done" =>
        \A n \in CallsOf("parse_elasticlink") :
            \A k \in LinkRowsValid(calls[n]) :
                LET parts == SplitComma(calls[n].lines[k])
                    tag == Upper(Strip(parts[4]))
                    links == get_command(model, "ELASTICLINK").links
                IN  /\ has_command(model, "ELASTICLINK")
                    /\ IntVal(parts[1]) \in DictKeys(links)
                    /\ LET link == DictGet(links, IntVal(parts[1]))
                       IN  /\ link.id = IntVal(parts[1])
                           /\ link.master_node = IntVal(parts[2])
                           /\ link.slave_node = IntVal(parts[3])
                           /\ link.link_type = tag
                           /\ link.angle = (IF Strip(parts[5]) = <<>> THEN [m |-> 0, e |-> 0]
                                            ELSE FloatVal(parts[5]))
                           /\ LinkTagged(tag) => LinkOptionsTagged(link.options, tag, parts)
                           /\ (~LinkTagged(tag) /\ tag # <<"G", "E", "N">>) =>
                                  LinkOptionsOther(link.options, parts)

\* a parse that stored a RIGID row with bSHEAR and DRy and a row of an
\* unrecognized type with param0 and param2
C25_Witness ==
    /\ pc = "done"
    /\ text = <<LnElasticLink, ElkRigid, ElkOther>>
    /\ has_command(model, "ELASTICLINK")
    /\ DictKeys(DictGet(get_command(model, "ELASTICLINK").links, 1).options)
           = {"bSHEAR", "DRy", "group"}
    /\ Len(DictGet(get_command(model, "ELASTICLINK").links, 5).options) = 2

(***************************************************************************)
(* GROUP documents                                                         *)
(***************************************************************************)

\* longest GROUP document, in lines
MaxGroupLines == 4

\* the header line and the rows of GROUP documents:
\*   LnGroup is `*GROUP`
\*   GrName1 is `NAME=G1`
\*   GrName2 is `NAME=G2`
\*   GrNode is `NODE=1 3-5 x`
\*   GrElem is `ELEM=2-1 7 4-`
\*   GrNodeMulti is `NODE=1-3-5`
LnGroup == <<"*", "G", "R", "O", "U", "P">>
GrName1 == <<"N", "A", "M", "E", "=", "G", "1">>
GrName2 == <<"N", "A", "M", "E", "=", "G", "2">>
GrNode == <<"N", "O", "D", "E", "=", "1", " ", "3", "-", "5", " ", "x">>
GrElem == <<"E", "L", "E", "M", "=", "2", "-", "1", " ", "7", " ", "4", "-">>
GrNodeMulti == <<"N", "O", "D", "E", "=", "1", "-", "3", "-", "5">>

GroupRowsCorpus == {GrName1, GrName2, GrNode, GrElem, GrNodeMulti}

GroupLinesAt(p) == IF p = 1 THEN {LnGroup} ELSE GroupRowsCorpus

InitGroup ==
    ParserInit /\ model = NewMCTModel /\ IdxIdle /\ BstIdle /\ DecIdle /\ PreIdle /\ ScanIdle /\ OneBuild

NextGroup ==
    \/ \E l \in GroupLinesAt(Len(text) + 1) : AddRow(l, MaxGroupLines)
    \/ ParseText
    \/ SplitLine
    \/ SplitFinish
    \/ DispatchBlock
    \/ ParseReturn

SpecGroup == InitGroup /\ [][NextGroup]_vars

\* a plain integer token, and a hyphen range token `start-end`
GroupPlainToken(tok) == IsDigits(tok)
GroupRangeToken(tok) ==
    LET Two(p) == Len(p) = 2 /\ IsDigits(p[1]) /\ IsDigits(p[2])
    IN  Two(SplitOn(tok, <<"-">>))

\* the ids one token stands for: itself, or start..end ascending
GroupTokenIds(tok) ==
    IF GroupPlainToken(tok) THEN <<DigitsVal(tok)>>
    ELSE IF GroupRangeToken(tok)
    THEN LET Between(a, b) == [j \in 1..(IF b >= a THEN b - a + 1 ELSE 0) |-> a + j - 1]
         IN  Between(DigitsVal(SplitOn(tok, <<"-">>)[1]), DigitsVal(SplitOn(tok, <<"-">>)[2]))
    ELSE <<>>

\* the ids of the tokens of a line, in order
RECURSIVE GroupLineIds(_)
GroupLineIds(toks) ==
    IF toks = <<>> THEN <<>>
    ELSE GroupTokenIds(Head(toks)) \o GroupLineIds(Tail(toks))

\* the tokens of a line that are neither plain integers nor ranges
GroupBadTokens(toks) ==
    SelectSeq(toks, LAMBDA tok : ~GroupPlainToken(tok) /\ ~GroupRangeToken(tok))

GroupLineTokens(line) == SplitWS(Strip(SplitOnce(line, <<"=">>)[2]))

\* the row of the NAME= line that governs row k of block c, 0 when none
\* precedes it
GroupNameRow(c, k) ==
    LET named == {j \in 1..(k - 1) : StartsWith(c.lines[j], <<"N", "A", "M", "E", "=">>)}
    IN  IF named = {} THEN 0 ELSE CHOOSE j \in named : \A j2 \in named : j2 <= j

\* the NODE= (ELEM=) rows governed by the NAME= line at row j, ascending
GroupMemberRows(c, j, prefix) ==
    {k \in (j + 1)..Len(c.lines) :
        StartsWith(c.lines[k], prefix) /\ GroupNameRow(c, k) = j}

\* the ids listed by the rows of set rows of block c, in row order
RECURSIVE GroupIdsOf(_, _)
GroupIdsOf(c, rows) ==
    IF rows = {} THEN <<>>
    ELSE LET First(k) ==
                 GroupLineIds(GroupLineTokens(c.lines[k])) \o GroupIdsOf(c, rows \ {k})
         IN  First(CHOOSE k \in rows : \A k2 \in rows : k <= k2)

\* the NAME= rows of block c whose group is the one stored under its name:
\* the last row of each name
GroupLastNamed(c) ==
    {j \in 1..Len(c.lines) :
        /\ StartsWith(c.lines[j], <<"N", "A", "M", "E", "=">>)
        /\ \A j2 \in (j + 1)..Len(c.lines) :
               StartsWith(c.lines[j2], <<"N", "A", "M", "E", "=">>) =>
                   Strip(SplitOnce(c.lines[j2], <<"=">>)[2])
                       # Strip(SplitOnce(c.lines[j], <<"=">>)[2])}

\* the NODE= and ELEM= rows of block c governed by a NAME= row
GroupListRows(c) ==
    {k \in 1..Len(c.lines) :
        /\ GroupNameRow(c, k) # 0
        /\ \/ StartsWith(c.lines[k], <<"N", "O", "D", "E", "=">>)
           \/ StartsWith(c.lines[k], <<"E", "L", "E", "M", "=">>)}

\* the tokens of the rows of set rows that are neither integers nor ranges,
\* each with the line number of its row, in document order
RECURSIVE GroupBadOf(_, _)
GroupBadOf(c, rows) ==
    IF rows = {} THEN <<>>
    ELSE LET First(k) ==
                 [n \in 1..Len(GroupBadTokens(GroupLineTokens(c.lines[k]))) |->
                     [cmd |-> GroupBadTokens(GroupLineTokens(c.lines[k]))[n],
                      line |-> c.line_nums[k]]]
                 \o GroupBadOf(c, rows \ {k})
         IN  First(CHOOSE k \in rows : \A k2 \in rows : k <= k2)

\* C26: after a parse of a GROUP block, the group stored under each name
\* lists, for the NODE= and ELEM= rows after its NAME= row, the plain integer
\* tokens and the ids start..end of the range tokens in order; the errors are
\* exactly one per token that is neither, with the token and the line number
\* of its row; rows before any NAME= row add nothing.
C26_GroupTokens ==
    pc = "done" =>
        \A n \in CallsOf("parse_group") :
            /\ [k \in 1..Len(model.errors) |->
                   [cmd |-> model.errors[k].cmd, line |-> model.errors[k].line]]
                   = GroupBadOf(calls[n], GroupListRows(calls[n]))
            /\ \A j \in GroupLastNamed(calls[n]) :
                   /\ has_command(model, "GROUP")
                   /\ LET g == DictGet(get_command(model, "GROUP").groups,
                                       Strip(SplitOnce(calls[n].lines[j], <<"=">>)[2]))
                      IN  /\ g.nodes = GroupIdsOf(calls[n],
                                           GroupMemberRows(calls[n], j, <<"N", "O", "D", "E", "=">>))
                          /\ g.elements = GroupIdsOf(calls[n],
                                              GroupMemberRows(calls[n], j, <<"E", "L", "E", "M", "=">>))

\* a parse of a group with a plain id, a range, an empty range and two
\* tokens that are neither
C26_Witness ==
    /\ pc = "done"
    /\ text = <<LnGroup, GrName1, GrNode, GrElem>>
    /\ has_command(model, "GROUP")
    /\ DictGet(get_command(model, "GROUP").groups, <<"G", "1">>).nodes = <<1, 3, 4, 5>>
    /\ DictGet(get_command(model, "GROUP").groups, <<"G", "1">>).elements = <<7>>
    /\ Len(model.errors) = 2

(***************************************************************************)
(* BSTEMPER: what is left of each element-header row                       *)
(***************************************************************************)

\* the error log holds an entry for the header row at line h: an entry that
\* names its line, or the shortfall entry that names its element id
BstErrorFor(h) ==
    \E e \in 1..Len(model.errors) :
        IF model.errors[e].msg = "shortfall"
        THEN model.errors[e].elem_id = IntVal(Strip(SplitOn(bst_lines[h], <<",">>)[1]))
        ELSE model.errors[e].line = h

\* C27: when parse_bstemper has returned, every element-header row that was
\* decoded has a temperature record in the output or an entry in the error
\* log, and every record holds at least 1 and at most num_sections sections.
C27_NoHeaderLost ==
    bst_pc = "done" =>
        /\ \A h \in HeaderLines : RecordsOf(h) # {} \/ BstErrorFor(h)
        /\ \A n \in 1..Len(temperatures) :
               /\ Len(temperatures[n].sections) >= 1
               /\ Len(temperatures[n].sections) <= temperatures[n].num_sections

(***************************************************************************)
(* Documents of blocks of several keywords, with and without rows          *)
(***************************************************************************)

\* longest document, in lines
MaxTraceLines == 3

\* header lines of the decoders that store nothing, and a row no decoder
\* accepts:
\*   LnGridline is `*GRIDLINE`
\*   LnRebarMatlCode is `*REBAR-MATL-CODE`
\*   LnTdmFunc is `*TDM-FUNC`
\*   LnMoveCtrl is `*MOVE-CTRL`
\*   LnHydStage is `*HYD-STAGE`
\*   LnHydCtrl is `*HYD-CTRL`
\*   LnHydHeatsrc is `*HYD-HEATSRC`
\*   TrRowText is `x`
LnGridline == <<"*", "G", "R", "I", "D", "L", "I", "N", "E">>
LnRebarMatlCode == <<"*", "R", "E", "B", "A", "R", "-", "M", "A", "T", "L", "-", "C", "O", "D", "E">>
LnTdmFunc == <<"*", "T", "D", "M", "-", "F", "U", "N", "C">>
LnMoveCtrl == <<"*", "M", "O", "V", "E", "-", "C", "T", "R", "L">>
LnHydStage == <<"*", "H", "Y", "D", "-", "S", "T", "A", "G", "E">>
LnHydCtrl == <<"*", "H", "Y", "D", "-", "C", "T", "R", "L">>
LnHydHeatsrc == <<"*", "H", "Y", "D", "-", "H", "E", "A", "T", "S", "R", "C">>
TrRowText == <<"x">>

TraceLines ==
    {LnGridline, LnRebarMatlCode, LnTdmFunc, LnMoveCtrl, LnHydStage, LnHydCtrl,
     LnHydHeatsrc, LnNode, LnElement, LnGroup, NdRowPlain, TrRowText}

InitTrace ==
    ParserInit /\ model = NewMCTModel /\ IdxIdle /\ BstIdle /\ DecIdle /\ PreIdle /\ ScanIdle /\ OneBuild

NextTrace ==
    \/ \E l \in TraceLines : AddRow(l, MaxTraceLines)
    \/ ParseText
    \/ SplitLine
    \/ SplitFinish
    \/ DispatchBlock
    \/ ParseReturn

SpecTrace == InitTrace /\ [][NextTrace]_vars

\* the dispatcher handles a block whose keyword is registered
DispatchesRegistered ==
    /\ pc = "dispatch" /\ blk <= Len(command_blocks) /\ blk' = blk + 1
    /\ IsRegistered(command_blocks[blk].key)

\* C28: every block with a registered keyword leaves a trace in the Result
\* Model when the dispatcher has handled it: a record is stored, or an error
\* or a warning is appended.
C28_EveryBlockLeavesTrace ==
    [][DispatchesRegistered =>
          \/ model'.commands # model.commands
          \/ model'.errors # model.errors
          \/ model'.warnings # model.warnings]_vars

(***************************************************************************)
(* STRUCTYPE documents                                                     *)
(***************************************************************************)

\* longest STRUCTYPE document, in lines
MaxStructypeLines == 3

\* data rows of a STRUCTYPE block: the ten fields of the file format and
\* the eight integers the decoder reads
\*   StRowFile is `0, 1, 1, NO, YES, 9806, 0, NO, NO, NO`
\*   StRowInts is `0, 1, 0, 0, 0, 0, 0, 3`
StRowFile == <<"0", ",", " ", "1", ",", " ", "1", ",", " ", "N", "O", ",", " ", "Y", "E", "S", ",", " ", "9", "8", "0", "6", ",", " ", "0", ",", " ", "N", "O", ",", " ", "N", "O", ",", " ", "N", "O">>
StRowInts == <<"0", ",", " ", "1", ",", " ", "0", ",", " ", "0", ",", " ", "0", ",", " ", "0", ",", " ", "0", ",", " ", "3">>

StructypeRowsCorpus == {StRowFile, StRowInts}

StructypeLines == {LnStructype, LnVersion, LnRow} \cup StructypeRowsCorpus

InitStructype ==
    ParserInit /\ model = NewMCTModel /\ IdxIdle /\ BstIdle /\ DecIdle /\ PreIdle /\ ScanIdle /\ OneBuild

NextStructype ==
    \/ \E l \in StructypeLines : AddRow(l, MaxStructypeLines)
    \/ ParseText
    \/ SplitLine
    \/ SplitFinish
    \/ DispatchBlock
    \/ ParseReturn

SpecStructype == InitStructype /\ [][NextStructype]_vars

\* the STRUCTYPE block handed to the decoder holds one data row, and that
\* row is well-formed
StructypeOneRow(c) ==
    /\ Cardinality(BodyRows(c)) = 1
    /\ \A k \in BodyRows(c) : c.lines[k] \in StructypeRowsCorpus

\* C29: after a parse of a document with a STRUCTYPE block of one well-formed
\* comma-separated data row, a STRUCTYPE record is stored and no error entry
\* names the block.
C29_StructypeStored ==
    pc = "done" =>
        \A n \in CallsOf("parse_structype") :
            StructypeOneRow(calls[n]) =>
                /\ has_command(model, "STRUCTYPE")
                /\ \A e \in 1..Len(model.errors) :
                       model.errors[e].cmd # MCTCommand.STRUCTYPE

(***************************************************************************)
(* The loops of the decoders that keep their own row or token index, one   *)
(* loop iteration at a time. Only the position of the loops is followed    *)
(* here: the loop that runs, i and j.                                      *)
(***************************************************************************)

\* most body rows of a scanned block
MaxScanRows == 3

\* a position of a scan: the loop about to be tested, i, j, and the 0-based
\* indices of the lines the iteration that led here read
ScanAt(loop, row, tok, read) == [pc |-> loop, i |-> row, j |-> tok, read |-> read]

\* parse_load_seq, one iteration of the outer loop (stage_parsers.py 40-69,
\* 101-102): a sequence-header row starts the inner loop at the next row
LoadSeqOuterIter(blines, row) ==
    LET Row(line, parts) ==
            IF line = <<>> THEN ScanAt("outer", row + 1, 0, <<row>>)
            ELSE IF Len(parts) < 2 THEN ScanAt("outer", row + 1, 0, <<row>>)
            ELSE IF IsDigits(parts[1]) THEN ScanAt("inner", row + 1, 0, <<row>>)
            ELSE ScanAt("outer", row + 1, 0, <<row>>)
        Fields(line) == Row(line, SplitWS(line))
    IN  Fields(Strip(blines[row + 1]))

\* parse_load_seq, the test of the inner loop (stage_parsers.py 71)
LoadSeqInnerTest(blines, row) ==
    /\ row < Len(blines)
    /\ ~StartsWith(Strip(blines[row + 1]), <<"*">>)
    /\ Strip(blines[row + 1]) # <<>>

\* parse_load_seq, one iteration of the inner loop (stage_parsers.py 72-100):
\* a row that is not a stage row ends the loop where it stands
LoadSeqInnerIter(blines, row) ==
    LET Stage(stage_parts) ==
            IF Len(stage_parts) < 3 \/ ~IsDigits(stage_parts[1])
            THEN ScanAt("outer", row, 0, <<row>>)
            ELSE ScanAt("inner", LoadSeqAfterStage(row), 0, <<row>>)
    IN  Stage(SplitWS(Strip(blines[row + 1])))

\* parse_dgn_sect, one iteration (section_parsers.py 286-323): the blank
\* row, the short row, the decoded row and the row int() rejects all end
\* with i += 1
DgnSectIter(blines, row) == ScanAt("rows", row + 1, 0, <<row>>)

\* parse_comp_gen_sect_psc_design, the rows taken as parameter rows of the
\* design row at index row (section_parsers.py 409-410): the index of the
\* last of them
RECURSIVE CompGenParamRows(_, _)
CompGenParamRows(blines, row) ==
    IF row + 1 < Len(blines) /\ ~StartsWith(Strip(blines[row + 2]), <<"*">>)
    THEN CompGenParamRows(blines, row + 1)
    ELSE row

\* parse_comp_gen_sect_psc_design, one iteration (section_parsers.py
\* 381-431)
CompGenIter(blines, row) ==
    LET Design(last) ==
            ScanAt("rows", last + 1, 0, [k \in 1..(last - row + 1) |-> row + k - 1])
        Row(line, parts) ==
            IF line = <<>> THEN ScanAt("rows", row + 1, 0, <<row>>)
            ELSE IF Len(parts) < 2 THEN ScanAt("rows", row + 1, 0, <<row>>)
            ELSE IF ~IntOk(parts[1]) THEN ScanAt("rows", row + 1, 0, <<row>>)
            ELSE Design(CompGenParamRows(blines, row))
        Fields(line) == Row(line, SplitComma(line))
    IN  Fields(Strip(blines[row + 1]))

\* parse_ts_group, one iteration of the first loop (tapered_section_parsers.py
\* 82-86): the first data row ends the loop where it stands
TsSkipIter(blines, row) ==
    LET Row(line) ==
            IF line # <<>> /\ ~StartsWith(line, <<";">>) /\ ~StartsWith(line, TS_GROUP_HEADER)
            THEN ScanAt("rows", row, 0, <<row>>)
            ELSE ScanAt("skip", row + 1, 0, <<row>>)
    IN  Row(Strip(blines[row + 1]))

\* parse_ts_group, one iteration of the second loop
\* (tapered_section_parsers.py 89-102)
TsRowsIter(blines, row) == ScanAt("rows", row + 1, 0, <<row>>)

\* parse_loadcomb, one step of the for loop over lines[2:] (load_parsers.py
\* 815-832): a coefficient row starts the token scan at j = 0
LoadCombLine(blines, row) ==
    LET Row(line) ==
            IF line = <<>> \/ StartsWith(line, <<";">>) THEN ScanAt("lines", row + 1, 0, <<row>>)
            ELSE IF StartsWith(line, <<"C", "B", ",">>) THEN ScanAt("lines", row + 1, 0, <<row>>)
            ELSE ScanAt("tokens", row, 0, <<row>>)
    IN  Row(Strip(blines[row + 1]))

\* parse_loadcomb, one iteration of the token scan (load_parsers.py 833-863)
LoadCombTokenIter(parts, row, tok) ==
    LET Factor(factor_str) ==
            IF factor_str # <<>> /\ factor_str # <<"-">> /\ ~FloatOk(factor_str)
            THEN ScanAt("tokens", row, tok + 1, <<>>)
            ELSE ScanAt("tokens", row, tok + 3, <<>>)
    IN  IF tok + 1 < Len(parts)
        THEN IF tok + 2 < Len(parts) THEN Factor(Strip(parts[tok + 3]))
             ELSE ScanAt("tokens", row, tok + 2, <<>>)
        ELSE ScanAt("tokens", row, tok + 1, <<>>)

\* parse_loadtomass, one step of the for loop over lines[2:] (load_parsers.py
\* 692-701)
LoadToMassLine(blines, row) ==
    LET Row(line) ==
            IF line = <<>> \/ StartsWith(line, <<";">>) THEN ScanAt("lines", row + 1, 0, <<row>>)
            ELSE ScanAt("tokens", row, 0, <<row>>)
    IN  Row(Strip(blines[row + 1]))

\* parse_loadtomass, one iteration of the pair scan (load_parsers.py 702-713)
LoadToMassTokenIter(parts, row, tok) == ScanAt("tokens", row, tok + 2, <<>>)

\* where each decoder stands before its first loop test; "done" when it
\* returns or raises before any loop (stage_parsers.py 39,
\* section_parsers.py 285 and 380, tapered_section_parsers.py 76-81,
\* load_parsers.py 775-783 and 669-687)
ScanEntry(dec, blines) ==
    LET HeaderRow == Strip(blines[2])
    IN  CASE dec = "parse_load_seq" -> ScanAt("outer", 1, 0, <<>>)
          [] dec = "parse_dgn_sect" -> ScanAt("rows", 1, 0, <<>>)
          [] dec = "parse_comp_gen_sect_psc_design" -> ScanAt("rows", 1, 0, <<>>)
          [] dec = "parse_ts_group" ->
                 IF Len(blines) < 2 THEN ScanAt("done", 0, 0, <<>>)
                 ELSE ScanAt("skip", 0, 0, <<>>)
          [] dec = "parse_loadcomb" ->
                 IF Len(blines) < 2 THEN ScanAt("done", 0, 0, <<>>)
                 ELSE IF HeaderRow = <<>> THEN ScanAt("done", 0, 0, <<>>)
                 ELSE ScanAt("lines", 2, 0, <<>>)
          [] dec = "parse_loadtomass" ->
                 IF Len(blines) < 2 THEN ScanAt("done", 0, 0, <<>>)
                 ELSE IF HeaderRow = <<>> \/ StartsWith(HeaderRow, <<";">>)
                 THEN ScanAt("done", 0, 0, <<>>)
                 ELSE IF Len(SplitComma(HeaderRow)) > 5 /\ ~FloatOk(SplitComma(HeaderRow)[6])
                 THEN ScanAt("done", 0, 0, <<>>)
                 ELSE ScanAt("lines", 2, 0, <<>>)

\* the test of the loop a scan stands at
ScanTest(dec, at, blines) ==
    IF at.pc = "tokens"
    THEN IF dec = "parse_loadtomass"
         THEN at.j < Len(SplitComma(Strip(blines[at.i + 1]))) - 1
         ELSE at.j < Len(SplitComma(Strip(blines[at.i + 1])))
    ELSE IF at.pc = "inner" THEN LoadSeqInnerTest(blines, at.i)
    ELSE at.i < Len(blines)

\* one iteration of the loop a scan stands at
ScanIteration(dec, at, blines) ==
    CASE at.pc = "outer" -> LoadSeqOuterIter(blines, at.i)
      [] at.pc = "inner" -> LoadSeqInnerIter(blines, at.i)
      [] at.pc = "skip" -> TsSkipIter(blines, at.i)
      [] at.pc = "rows" /\ dec = "parse_dgn_sect" -> DgnSectIter(blines, at.i)
      [] at.pc = "rows" /\ dec = "parse_comp_gen_sect_psc_design" -> CompGenIter(blines, at.i)
      [] at.pc = "rows" /\ dec = "parse_ts_group" -> TsRowsIter(blines, at.i)
      [] at.pc = "lines" /\ dec = "parse_loadcomb" -> LoadCombLine(blines, at.i)
      [] at.pc = "lines" /\ dec = "parse_loadtomass" -> LoadToMassLine(blines, at.i)
      [] at.pc = "tokens" /\ dec = "parse_loadcomb" ->
             LoadCombTokenIter(SplitComma(Strip(blines[at.i + 1])), at.i, at.j)
      [] at.pc = "tokens" /\ dec = "parse_loadtomass" ->
             LoadToMassTokenIter(SplitComma(Strip(blines[at.i + 1])), at.i, at.j)

\* where a scan goes on when the test of its loop fails: the inner loop of
\* parse_load_seq gives way to the outer loop, the first loop of
\* parse_ts_group to the second, a token scan to the next line; any other
\* loop is the last of its decoder
ScanLeft(at) ==
    CASE at.pc = "inner" -> ScanAt("outer", at.i, 0, <<>>)
      [] at.pc = "skip" -> ScanAt("rows", at.i, 0, <<>>)
      [] at.pc = "tokens" -> ScanAt("lines", at.i + 1, 0, <<>>)
      [] OTHER -> ScanAt("done", at.i, at.j, <<>>)

\* header lines and rows of the scanned blocks:
\*   LnDgnSect is `*DGN-SECT`
\*   LnCompGen is `*COMP-GEN-SECT-PSC-DESIGN`
\*   LnLoadComb is `*LOADCOMB`
\*   LnLoadToMass is `*LOADTOMASS`
\*   ScRowFields is `1, A, 2`
\*   ScRowText is `ST, L1, x, 2`
\*   ScRowPair is `G1, 1.5`
\*   ScRowComment is `; c`
LnDgnSect == <<"*", "D", "G", "N", "-", "S", "E", "C", "T">>
LnCompGen == <<"*", "C", "O", "M", "P", "-", "G", "E", "N", "-", "S", "E", "C", "T", "-", "P", "S", "C", "-", "D", "E", "S", "I", "G", "N">>
LnLoadComb == <<"*", "L", "O", "A", "D", "C", "O", "M", "B">>
LnLoadToMass == <<"*", "L", "O", "A", "D", "T", "O", "M", "A", "S", "S">>
ScRowFields == <<"1", ",", " ", "A", ",", " ", "2">>
ScRowText == <<"S", "T", ",", " ", "L", "1", ",", " ", "x", ",", " ", "2">>
ScRowPair == <<"G", "1", ",", " ", "1", ".", "5">>
ScRowComment == <<";", " ", "c">>

ScanDecoders ==
    {"parse_load_seq", "parse_dgn_sect", "parse_comp_gen_sect_psc_design",
     "parse_ts_group", "parse_loadcomb", "parse_loadtomass"}

ScanHeader(dec) ==
    CASE dec = "parse_load_seq" -> LnLoadSeq
      [] dec = "parse_dgn_sect" -> LnDgnSect
      [] dec = "parse_comp_gen_sect_psc_design" -> LnCompGen
      [] dec = "parse_ts_group" -> LnTsGroup
      [] dec = "parse_loadcomb" -> LnLoadComb
      [] dec = "parse_loadtomass" -> LnLoadToMass

ScanRows ==
    {SqHead1, SqStage1, SqShort, BrBlank, ScRowFields, ScRowText, ScRowPair, ScRowComment}

ScanHere == ScanAt(scan_pc, scan_i, scan_j, <<>>)

ScanLoops == {"outer", "inner", "skip", "rows", "lines", "tokens"}

ScanInit ==
    /\ scan_dec \in ScanDecoders
    /\ scan_pc = "build"
    /\ scan_lines = <<ScanHeader(scan_dec)>>
    /\ scan_i = 0
    /\ scan_j = 0
    /\ scan_reads = <<>>

\* the caller appends a body row to the block
ScanAddRow(r) ==
    /\ scan_pc = "build"
    /\ Len(scan_lines) <= MaxScanRows
    /\ scan_lines' = Append(scan_lines, r)
    /\ UNCHANGED <<scan_dec, scan_pc, scan_i, scan_j, scan_reads, model, parseVars,
                   idxVars, bstVars, decVars, prior, added, preVars, pydantic>>

\* the decoder is called and stands before its first loop
ScanCall ==
    /\ scan_pc = "build"
    /\ scan_pc' = ScanEntry(scan_dec, scan_lines).pc
    /\ scan_i' = ScanEntry(scan_dec, scan_lines).i
    /\ scan_j' = 0
    /\ UNCHANGED <<scan_dec, scan_lines, scan_reads, model, parseVars, idxVars, bstVars,
                   decVars, prior, added, preVars, pydantic>>

\* the test of the current loop holds and its body runs once
ScanIter ==
    /\ scan_pc \in ScanLoops
    /\ ScanTest(scan_dec, ScanHere, scan_lines)
    /\ LET Go(to) ==
               /\ scan_pc' = to.pc
               /\ scan_i' = to.i
               /\ scan_j' = to.j
               /\ scan_reads' = scan_reads \o to.read
       IN  Go(ScanIteration(scan_dec, ScanHere, scan_lines))
    /\ UNCHANGED <<scan_dec, scan_lines, model, parseVars, idxVars, bstVars, decVars,
                   prior, added, preVars, pydantic>>

\* the test of the current loop fails
ScanLeave ==
    /\ scan_pc \in ScanLoops
    /\ ~ScanTest(scan_dec, ScanHere, scan_lines)
    /\ scan_pc' = ScanLeft(ScanHere).pc
    /\ scan_i' = ScanLeft(ScanHere).i
    /\ scan_j' = ScanLeft(ScanHere).j
    /\ UNCHANGED <<scan_dec, scan_lines, scan_reads, model, parseVars, idxVars, bstVars,
                   decVars, prior, added, preVars, pydantic>>

\* either parse_bstemper runs over a block, or one of the other decoders
InitScan ==
    /\ ParserInit /\ model = NewMCTModel /\ IdxIdle /\ DecIdle /\ PreIdle /\ OneBuild
    /\ \/ BstInit /\ ScanIdle
       \/ BstIdle /\ ScanInit

NextScan ==
    \/ \E r \in BstRows : BstAddRow(r)
    \/ BstCall
    \/ BstIter
    \/ BstEnd
    \/ \E r \in ScanRows : ScanAddRow(r)
    \/ ScanCall
    \/ ScanIter
    \/ ScanLeave

SpecScan == InitScan /\ [][NextScan]_vars

\* a step that runs the body of one of the loops with their own index: the
\* row loops and the token scans (the for loops over the lines of LOADCOMB
\* and LOADTOMASS are driven by the iterator)
ScanIterates ==
    /\ scan_pc \in ScanLoops \ {"lines"}
    /\ ScanTest(scan_dec, ScanHere, scan_lines)
    /\ scanVars' # scanVars

\* a step that runs the body of the loop of parse_bstemper
BstIterates == bst_pc = "loop" /\ bst_pc' = "loop" /\ bstVars' # bstVars

\* the index moved on
ScanAdvances == IF scan_pc = "tokens" THEN scan_j' > scan_j ELSE scan_i' > scan_i

\* C30 (as claimed): every iteration of the row loops of BSTEMPER, LOAD-SEQ
\* (outer and inner), DGN-SECT, COMP-GEN-SECT-PSC-DESIGN and TS-GROUP
\* strictly increases the row index, every iteration of the token scans of
\* LOADCOMB and LOADTOMASS strictly increases the token index, and no line
\* of the block is read by more than one iteration.
C30_IndexStrictlyIncreases ==
    /\ [][ScanIterates => ScanAdvances]_vars
    /\ [][BstIterates => bst_i' > bst_i]_vars
    /\ [](\A a, b \in 1..Len(scan_reads) : scan_reads[a] = scan_reads[b] => a = b)

\* the iteration leaves its loop by `break` at the row it stands at: the
\* inner loop of parse_load_seq at a row that is not a stage row, the first
\* loop of parse_ts_group at the first data row
ScanBreaks ==
    /\ \/ scan_pc = "inner" /\ scan_pc' = "outer"
       \/ scan_pc = "skip" /\ scan_pc' = "rows"
    /\ scan_i' = scan_i

\* what is left to scan: the rows from i on, then whether a loop stands
\* before the loop that handles row i, then the tokens of the row from j on
ScanMeasure(at) ==
    <<Len(scan_lines) - at.i,
      CASE at.pc = "lines" -> 2
        [] at.pc \in {"tokens", "inner", "skip"} -> 1
        [] OTHER -> 0,
      IF at.pc = "tokens" /\ at.j < Len(SplitComma(Strip(scan_lines[at.i + 1])))
      THEN Len(SplitComma(Strip(scan_lines[at.i + 1]))) - at.j
      ELSE 0>>

ScanLess(a, b) ==
    \/ a[1] < b[1]
    \/ a[1] = b[1] /\ a[2] < b[2]
    \/ a[1] = b[1] /\ a[2] = b[2] /\ a[3] < b[3]

\* C30 (amended): every iteration of those loops strictly increases its
\* index or leaves its loop by `break` without moving the index; every step
\* of a scan brings it nearer to its end, the index never passes the end of
\* the block, and a line is read by at most two iterations, twice only when
\* the first of the two left its loop at that line and the next loop read
\* it right after.
C30_IndexIncreasesOrLoopEnds ==
    /\ [][ScanIterates => ScanAdvances \/ ScanBreaks]_vars
    /\ [][BstIterates => bst_i' > bst_i]_vars
    /\ [][(scan_pc \in ScanLoops /\ scanVars' # scanVars) =>
             scan_pc' = "done"
             \/ ScanLess(ScanMeasure(ScanAt(scan_pc', scan_i', scan_j', <<>>)),
                         ScanMeasure(ScanHere))]_vars
    /\ [](scan_i <= Len(scan_lines) /\ bst_i <= Len(bst_lines))
    /\ [](\A a, b \in 1..Len(scan_reads) :
             (a < b /\ scan_reads[a] = scan_reads[b]) =>
                 /\ b = a + 1
                 /\ scan_dec \in {"parse_load_seq", "parse_ts_group"})

\* the scan of `*LOAD-SEQ` / `1 SEQ1` / `1 CS ST1` / `1 SEQ1` has ended: the
\* inner loop read the stage row and the second header row, the outer loop
\* read the second header row again
C30_Witness ==
    /\ scan_pc = "done"
    /\ scan_dec = "parse_load_seq"
    /\ scan_lines = <<LnLoadSeq, SqHead1, SqStage1, SqHead1>>
    /\ scan_reads = <<1, 2, 3, 3>>

====
